---------------------------- MODULE Spec2Model ----------------------------
(***************************************************************************)
(* Model of the Gnosis support code of execution-spec-tests:               *)
(*   - ethereum_evm_t8n/runner.py: TransitionTool.evaluate                 *)
(*   - pytest_plugins/gnosis/gnosis.py: Gnosis fork, allocation sets       *)
(*   - pytest_plugins/gnosis/gnosis_fork_monkey_patch.py: fork patching    *)
(*   - pytest_plugins/gnosis/plugin.py: pytest_configure, GnosisPlugin     *)
(*   - pytest_plugins/gnosis/gnosis_block_types.py: Environment defaults   *)
(*   - cli/header_hash.py: the header-hash tool                            *)
(***************************************************************************)
EXTENDS Integers, Sequences, FiniteSets, TLC

(***************************************************************************)
(* Bounds of the model.                                                    *)
(***************************************************************************)
\* Longest transaction list a caller passes to evaluate.
MaxTxs == 2
\* Largest blob parameter value given as an override.
MaxBlobValue == 2
\* Most calls of add_gnosis_system_contract / add_gnosis_account /
\* update_gnosis_account in one session.
MaxAllocCalls == 2
\* Most calls of patch_environment_defaults_and_class in one session.
MaxPatchCalls == 2

(***************************************************************************)
(* PART 1.  TransitionTool.evaluate (ethereum_evm_t8n/runner.py)           *)
(***************************************************************************)
VARIABLES
    pc,           \* pc[c]: position of call c inside evaluate
    args,         \* args[c]: the (alloc, txs, env) the caller passed
    engineStdin,  \* engineStdin[c]: documents the engine of call c read on stdin
    runs,         \* runs[c]: engine processes started by the current call c
    proc,         \* proc[c]: what the engine did: exit status and stdout text
    outcome       \* outcome[c]: what evaluate gave back to its caller

t8nVars == <<pc, args, engineStdin, runs, proc, outcome>>

\* State of the fork classes and of the Gnosis plugin modules (PART 2).
VARIABLES
    gnosis_params,                  \* _gnosis_* globals of gnosis.py
    GNOSIS_SYSTEM_CONTRACTS,        \* address -> account
    GNOSIS_PRE_ALLOCATED_ACCOUNTS,  \* address -> account
    GNOSIS_CHAIN_ACCOUNTS,          \* address -> account
    original_fork_methods,          \* _original_fork_methods
    custom_fork_params,             \* _custom_fork_params
    patch_pre_allocation,           \* _patch_pre_allocation
    class_dict,                     \* class_dict[f][n]: attribute n set on class f
    gnosis_listed,                  \* whether get_forks() lists the Gnosis class
    configured,                     \* pytest_configure has run
    alloc_calls                     \* calls made to the allocation-set functions

forkVars == <<gnosis_params, GNOSIS_SYSTEM_CONTRACTS, GNOSIS_PRE_ALLOCATED_ACCOUNTS,
              GNOSIS_CHAIN_ACCOUNTS, original_fork_methods, custom_fork_params,
              patch_pre_allocation, class_dict, gnosis_listed, configured,
              alloc_calls>>

\* State of the Environment class, the transaction defaults and the plugin
\* configuration (PART 3).
VARIABLES
    config,                          \* the parsed command line (config.getoption)
    EnvironmentDefaults,             \* block_types.EnvironmentDefaults (its gas_limit)
    original_defaults,               \* _original_defaults
    original_environment_class,      \* _original_environment_class
    original_set_fork_requirements,  \* _original_set_fork_requirements
    set_fork_requirements,           \* the method Environment.set_fork_requirements
    model_fields,                    \* Environment.model_fields: the defaults assigned to it
    environment_init,                \* Environment.__init__: the patched_init closures, innermost first
    TransactionDefaults,             \* TransactionDefaults class attributes
    environment                      \* the Environment a test built last

envVars == <<config, EnvironmentDefaults, original_defaults, original_environment_class,
             original_set_fork_requirements, set_fork_requirements, model_fields,
             environment_init, TransactionDefaults, environment>>

\* State of the header-hash tool runs (PART 4).
VARIABLES
    tool,    \* tool[r]: position, arguments, header object, stdout and result of run r
    files    \* the file system: path -> text

toolVars == <<tool, files>>

\* State of the fork registration fixture (PART 5).
VARIABLES
    helpers_get_forks,  \* the function bound to ethereum_test_forks.helpers.get_forks
    registration        \* outcome of gnosis_fork_registrar

regVars == <<helpers_get_forks, registration>>

vars == <<t8nVars, forkVars, envVars, toolVars, regVars>>

\* Independent callers of evaluate (workers evaluating scenarios).
Calls == {"c1", "c2"}

\* Caller-side values.  alloc / env are opaque mappings, txs an ordered list.
AllocInputs == {"pre1"}
EnvInputs == {"env1"}
TxInputs == {"tx1", "tx2"}

RECURSIVE SeqsUpTo(_, _)
SeqsUpTo(S, n) ==
    IF n = 0 THEN {<<>>}
    ELSE LET shorter == SeqsUpTo(S, n - 1)
         IN  shorter \cup {Append(s, x) : s \in shorter, x \in S}

TxsInputs == SeqsUpTo(TxInputs, MaxTxs)

NoArgs == [alloc |-> "", txs |-> <<>>, env |-> ""]

\* A JSON object is a function from its top-level keys to values.
EmptyDoc == [k \in {} |-> ""]

\* Text a process can write on its stdout: not JSON at all, or one JSON object.
MalformedText == [kind |-> "malformed", doc |-> EmptyDoc]
DocText(d) == [kind |-> "doc", doc |-> d]
\* The value of CompletedProcess.stdout when the stream was not captured.
NoneText == [kind |-> "none", doc |-> EmptyDoc]

\* The values the engine puts under each key it writes.
EngineValue(k) ==
    CASE k = "alloc" -> "postAlloc"
      [] k = "result" -> "blockResult"
      [] OTHER -> "other"

EngineKeySets ==
    {{}, {"alloc"}, {"result"}, {"alloc", "result"}, {"alloc", "result", "extra"}}

\* Everything the external engine may write before it exits (a black box).
EngineOutputs ==
    {MalformedText} \cup {DocText([k \in K |-> EngineValue(k)]) : K \in EngineKeySets}

ExitCodes == {0, 1}

NoProc == [returncode |-> 0, written |-> NoneText]
NoOutcome == [kind |-> "none", exc |-> "", alloc |-> "", result |-> ""]

Return(a, r) == [kind |-> "return", exc |-> "", alloc |-> a, result |-> r]
Raise(e) == [kind |-> "raise", exc |-> e, alloc |-> "", result |-> ""]

\* A request whose transaction list reaches the engine in reverse order.
RECURSIVE ReverseSeq(_)
ReverseSeq(s) == IF s = <<>> THEN <<>> ELSE Append(ReverseSeq(Tail(s)), Head(s))

RequestDocumentReversedTxs(alloc, txs, env) ==
    << <<"alloc", alloc>>, <<"txs", ReverseSeq(txs)>>, <<"env", env>> >>

\* runner.py 38-43: stdin = {"alloc": alloc, "txs": txs, "env": env};
\* json.dumps keeps the insertion order of the keys and the order of lists.
RequestDocument(alloc, txs, env) ==
    << <<"alloc", alloc>>, <<"txs", txs>>, <<"env", env>> >>

\* runner.py 43: subprocess.run(args, input=...) is given neither stdout=PIPE
\* nor capture_output: the child inherits the parent's stdout and the
\* CompletedProcess carries stdout = None whatever the child wrote.
CompletedStdout(written) == NoneText

\* An evaluate that starts the engine again after a failed run.
AfterRunRetrying(returncode) == IF returncode # 0 THEN "retry" ELSE "parse"

\* runner.py 45-46: `if result.returncode != 0: pass` - evaluate goes on to
\* parse the output for every exit status; it never starts the engine again.
AfterRun(returncode) == "parse"

\* json.loads: TypeError on None, JSONDecodeError on text that is not JSON.
JsonLoads(text) ==
    CASE text.kind = "none" -> [raises |-> "TypeError", doc |-> EmptyDoc]
      [] text.kind = "malformed" -> [raises |-> "JSONDecodeError", doc |-> EmptyDoc]
      [] OTHER -> [raises |-> "", doc |-> text.doc]

\* runner.py 48-53: parse, `if ... not in output: pass`, then index the keys.
EvaluateResult(stdout) ==
    LET loaded == JsonLoads(stdout)
        output == loaded.doc
    IN  IF loaded.raises # "" THEN Raise(loaded.raises)
        ELSE IF "alloc" \notin DOMAIN output \/ "result" \notin DOMAIN output
             THEN Raise("KeyError")
             ELSE Return(output["alloc"], output["result"])

T8nInit ==
    /\ pc = [c \in Calls |-> "idle"]
    /\ args = [c \in Calls |-> NoArgs]
    /\ engineStdin = [c \in Calls |-> <<>>]
    /\ runs = [c \in Calls |-> 0]
    /\ proc = [c \in Calls |-> NoProc]
    /\ outcome = [c \in Calls |-> NoOutcome]

\* A caller enters evaluate(alloc, txs, env): runner.py 21-42.
Evaluate(c) ==
    /\ pc[c] \in {"idle", "done"}
    /\ \E a \in AllocInputs, t \in TxsInputs, e \in EnvInputs :
          args' = [args EXCEPT ![c] = [alloc |-> a, txs |-> t, env |-> e]]
    /\ pc' = [pc EXCEPT ![c] = "run"]
    /\ engineStdin' = [engineStdin EXCEPT ![c] = <<>>]
    /\ runs' = [runs EXCEPT ![c] = 0]
    /\ proc' = [proc EXCEPT ![c] = NoProc]
    /\ outcome' = [outcome EXCEPT ![c] = NoOutcome]
    /\ UNCHANGED <<forkVars, envVars, toolVars, regVars>>

\* runner.py 43: subprocess.run starts the engine and feeds it the request.
StartEngine(c) ==
    /\ pc[c] = "run"
    /\ engineStdin' = [engineStdin EXCEPT ![c] =
          Append(@, RequestDocument(args[c].alloc, args[c].txs, args[c].env))]
    /\ runs' = [runs EXCEPT ![c] = @ + 1]
    /\ pc' = [pc EXCEPT ![c] = "wait"]
    /\ UNCHANGED <<args, proc, outcome>>
    /\ UNCHANGED <<forkVars, envVars, toolVars, regVars>>

\* The engine writes its output and exits; subprocess.run returns.
EngineExit(c) ==
    /\ pc[c] = "wait"
    /\ \E rc \in ExitCodes, w \in EngineOutputs :
          proc' = [proc EXCEPT ![c] = [returncode |-> rc, written |-> w]]
    /\ pc' = [pc EXCEPT ![c] = "check"]
    /\ UNCHANGED <<args, engineStdin, runs, outcome>>
    /\ UNCHANGED <<forkVars, envVars, toolVars, regVars>>

\* runner.py 45-53: the rest of evaluate, up to its return or exception.
FinishEvaluate(c) ==
    /\ pc[c] = "check"
    /\ IF AfterRun(proc[c].returncode) = "parse"
       THEN /\ outcome' = [outcome EXCEPT ![c] =
                   EvaluateResult(CompletedStdout(proc[c].written))]
            /\ pc' = [pc EXCEPT ![c] = "done"]
       ELSE /\ pc' = [pc EXCEPT ![c] = "run"]
            /\ UNCHANGED outcome
    /\ UNCHANGED <<args, engineStdin, runs, proc>>
    /\ UNCHANGED <<forkVars, envVars, toolVars, regVars>>

T8nNext ==
    \E c \in Calls :
        \/ Evaluate(c)
        \/ StartEngine(c)
        \/ EngineExit(c)
        \/ FinishEvaluate(c)

(***************************************************************************)
(* Claims about TransitionTool.evaluate.                                   *)
(***************************************************************************)
Finished(c) == pc[c] = "done"
WroteDocument(c) == proc[c].written.kind = "doc"
WrittenKeys(c) == DOMAIN proc[c].written.doc

\* C1: whenever the engine exits with a non-zero status, evaluate fails with
\* the engine-execution error and with nothing else (no returned pair, no
\* other kind of error), whatever the engine wrote.
C1_NonZeroExitIsEngineExecutionError ==
    \A c \in Calls :
        (Finished(c) /\ proc[c].returncode # 0)
            => outcome[c] = Raise("EngineExecutionError")

\* C2: when the engine exits with status 0 and writes a well-formed document
\* lacking `alloc` or `result`, evaluate fails with the dedicated
\* incomplete-response error, distinct from the decoding error and from the
\* engine-execution error, and returns no partial result.
C2_IncompleteOutputIsIncompleteResponseError ==
    \A c \in Calls :
        (/\ Finished(c)
         /\ proc[c].returncode = 0
         /\ WroteDocument(c)
         /\ ~({"alloc", "result"} \subseteq WrittenKeys(c)))
            => outcome[c] = Raise("IncompleteResponseError")

\* C3: when the engine exits with status 0 and writes one well-formed document
\* holding `alloc` and `result` (and possibly more keys), evaluate returns
\* exactly the pair (document's alloc, document's result).
C3_CompleteOutputIsReturned ==
    \A c \in Calls :
        (/\ Finished(c)
         /\ proc[c].returncode = 0
         /\ WroteDocument(c)
         /\ {"alloc", "result"} \subseteq WrittenKeys(c))
            => outcome[c] = Return(proc[c].written.doc["alloc"],
                                   proc[c].written.doc["result"])

EngineStarted(c) == pc[c] \in {"wait", "check", "done"}

\* The value bound to key k in a document given as a list of key/value pairs.
ValuesOf(d, k) == {d[i][2] : i \in {j \in 1..Len(d) : d[j][1] = k}}

\* C4: the engine of a call reads a single document whose top-level keys are
\* exactly alloc, txs and env (each once), bound to that call's own three
\* arguments unchanged, the transaction list in the caller's order.
C4_RequestIsTheCallersArguments ==
    \A c \in Calls :
        EngineStarted(c) =>
            /\ Len(engineStdin[c]) = 1
            /\ LET d == engineStdin[c][1]
               IN  /\ Len(d) = 3
                   /\ {d[i][1] : i \in 1..Len(d)} = {"alloc", "txs", "env"}
                   /\ ValuesOf(d, "alloc") = {args[c].alloc}
                   /\ ValuesOf(d, "txs") = {args[c].txs}
                   /\ ValuesOf(d, "env") = {args[c].env}

\* C4 witness: a call whose engine has read the request for two different
\* transactions in a given order, while another call with the opposite
\* transaction order has already finished.
C4_Witness ==
    \E c, e \in Calls :
        /\ c # e
        /\ Finished(e) /\ args[e].txs = <<"tx2", "tx1">>
        /\ pc[c] = "wait" /\ args[c].txs = <<"tx1", "tx2">>
        /\ Len(engineStdin[c]) = 1

\* C5: a call of evaluate starts the engine exactly once, for every outcome:
\* no engine before subprocess.run, exactly one from then on.
C5_EngineStartedExactlyOnce ==
    \A c \in Calls :
        /\ pc[c] \in {"idle", "run"} => runs[c] = 0
        /\ EngineStarted(c) => runs[c] = 1

\* C5 witness: one finished call whose engine failed (non-zero exit) and
\* another finished call whose engine wrote malformed output.
C5_Witness ==
    \E c, e \in Calls :
        /\ Finished(c) /\ proc[c].returncode # 0 /\ runs[c] = 1
        /\ Finished(e) /\ proc[e].returncode = 0
        /\ proc[e].written.kind = "malformed" /\ runs[e] = 1


(***************************************************************************)
(* PART 2.  Fork classes, Gnosis allocation sets and fork patching         *)
(* (pytest_plugins/gnosis/gnosis.py, gnosis_fork_monkey_patch.py,          *)
(*  plugin.py: pytest_configure)                                           *)
(***************************************************************************)
\* gnosis.py 19-21.
DEFAULT_GNOSIS_BLOB_BASE_FEE_UPDATE_FRACTION == 2504285
DEFAULT_GNOSIS_TARGET_BLOBS_PER_BLOCK == 1
DEFAULT_GNOSIS_MAX_BLOBS_PER_BLOCK == 2

BlobParams ==
    {"blob_base_fee_update_fraction", "target_blobs_per_block", "max_blobs_per_block"}

MethodNames ==
    BlobParams \cup {"pre_allocation_blockchain", "pre_allocation", "supports_blobs"}

\* Python dicts: a | b and a.update(b); the right operand wins on a shared key.
EmptyDict == [k \in {} |-> 0]
DictUnion(a, b) ==
    [k \in DOMAIN a \cup DOMAIN b |-> IF k \in DOMAIN b THEN b[k] ELSE a[k]]
\* d[k] = v
DictPut(d, k, v) == [x \in DOMAIN d \cup {k} |-> IF x = k THEN v ELSE d[x]]

(***************************************************************************)
(* The fork classes.  Frontier .. Prague are the library's forks, in the   *)
(* order get_forks() lists them; each derives from the one before it.  The *)
(* three forks before Cancun stand for the three ways a fork can lack blob *)
(* support: no supports_blobs attribute, supports_blobs raising            *)
(* NotImplementedError, supports_blobs returning False.  Gnosis            *)
(* (gnosis.py 120) derives from Cancun.                                    *)
(***************************************************************************)
LibraryForks == <<"Frontier", "Homestead", "Shanghai", "Cancun", "Prague">>
AllForks == {"Frontier", "Homestead", "Shanghai", "Cancun", "Prague", "Gnosis"}

Parent(f) ==
    CASE f = "Frontier" -> "BaseFork"
      [] f = "Homestead" -> "Frontier"
      [] f = "Shanghai" -> "Homestead"
      [] f = "Cancun" -> "Shanghai"
      [] f = "Prague" -> "Cancun"
      [] f = "Gnosis" -> "Cancun"

\* A class attribute: missing, the method the class body defines, the lambda
\* of patch_fork_parameters (value), or a pre-allocation wrapper (orig holds
\* the bound method the closure captured).
Absent == [kind |-> "absent", owner |-> "", value |-> 0, orig |-> <<>>]
Defined(o) == [kind |-> "def", owner |-> o, value |-> 0, orig |-> <<>>]
Lambda(v) == [kind |-> "lambda", owner |-> "", value |-> v, orig |-> <<>>]
Wrapper(k, bound) == [kind |-> k, owner |-> "", value |-> 0, orig |-> <<bound>>]

\* The (class, attribute) pairs that class bodies define.
ClassBodies ==
    {<<"Frontier", n>> : n \in BlobParams \cup {"pre_allocation_blockchain", "pre_allocation"}}
    \cup {<<"Homestead", "supports_blobs">>, <<"Shanghai", "supports_blobs">>}
    \cup {<<"Cancun", n>> : n \in BlobParams \cup {"pre_allocation_blockchain", "supports_blobs"}}
    \cup {<<"Prague", n>> : n \in BlobParams \cup {"pre_allocation_blockchain"}}
    \cup {<<"Gnosis", n>> : n \in BlobParams \cup {"pre_allocation_blockchain"}}

InitialClassDict ==
    [f \in AllForks |->
        [n \in MethodNames |-> IF <<f, n>> \in ClassBodies THEN Defined(f) ELSE Absent]]

\* Attribute lookup along the method resolution order of class f.
RECURSIVE Resolve(_, _, _)
Resolve(cd, f, n) ==
    IF f = "BaseFork" THEN Absent
    ELSE IF cd[f][n].kind # "absent" THEN cd[f][n]
    ELSE Resolve(cd, Parent(f), n)

\* hasattr(fork_class, n) and fork_class.n (a classmethod bound to fork_class).
HasAttr(cd, f, n) == Resolve(cd, f, n).kind # "absent"
GetAttr(cd, f, n) == [func |-> Resolve(cd, f, n), cls |-> f]

\* fork_class.supports_blobs(): "True", "False" or the exception raised.
SupportsBlobs(cd, f) ==
    LET m == Resolve(cd, f, "supports_blobs")
    IN  CASE m.owner = "Homestead" -> "NotImplementedError"
          [] m.owner = "Shanghai" -> "False"
          [] OTHER -> "True"

\* Blob parameters the library's blob forks define (gnosis.py 19-21 quotes
\* them: Cancun 3.3M / 3 / 6, Prague 5M / 6 / 9).
LibraryBlobValue(o, p) ==
    CASE o = "Cancun" /\ p = "blob_base_fee_update_fraction" -> 3338477
      [] o = "Cancun" /\ p = "target_blobs_per_block" -> 3
      [] o = "Cancun" /\ p = "max_blobs_per_block" -> 6
      [] o = "Prague" /\ p = "blob_base_fee_update_fraction" -> 5007716
      [] o = "Prague" /\ p = "target_blobs_per_block" -> 6
      [] o = "Prague" /\ p = "max_blobs_per_block" -> 9

\* Calling a blob accessor m for parameter p under the globals gp
\* (gnosis.py 144-157 for Gnosis, the lambdas of patch_fork_parameters,
\* the library's methods; Frontier's raise NotImplementedError).
CallBlob(m, p, gp) ==
    CASE m.kind = "lambda" -> [raises |-> FALSE, value |-> m.value]
      [] m.kind = "def" /\ m.owner = "Gnosis" -> [raises |-> FALSE, value |-> gp[p]]
      [] m.kind = "def" /\ m.owner \in {"Cancun", "Prague"} ->
            [raises |-> FALSE, value |-> LibraryBlobValue(m.owner, p)]
      [] OTHER -> [raises |-> TRUE, value |-> 0]

\* fork.p() for fork f in class dictionary cd.
BlobValue(cd, f, p, gp) == CallBlob(Resolve(cd, f, p), p, gp)

(***************************************************************************)
(* Accounts and allocations.  An account is a dict from field names to hex *)
(* strings; an allocation a dict from addresses to accounts.               *)
(***************************************************************************)
ZeroAddress == "0x0000000000000000000000000000000000000000"
ChainAddress == "0x1234567890123456789012345678901234567890"
SystemAddress == "0x0000000000000000000000000000000000001000"
TestAddress == "0xa94f5374fce5edbc8e2a8697c15331677e6ebf0b"
BeaconRootsAddress == "0x000f3df6d732807ef1319fb7b8bb8522d0beac02"
HistoryAddress == "0x0000f90827f1c53a10cb7a02335b175320002935"

\* gnosis.py 29-37, 39-47, 50-63.
InitialSystemContracts ==
    [a \in {SystemAddress} |->
        [nonce |-> "0x01", balance |-> "0x00", code |-> "0x3660", storage |-> "{}"]]
InitialPreAllocatedAccounts ==
    [a \in {TestAddress} |->
        [nonce |-> "0x00", balance |-> "0x0de0b6b3a7640000", code |-> "0x", storage |-> "{}"]]
InitialChainAccounts ==
    [a \in {ZeroAddress, ChainAddress} |->
        IF a = ZeroAddress
        THEN [balance |-> "0x3", nonce |-> "0x2", code |-> "0x", storage |-> "{}"]
        ELSE [balance |-> "0x56bc75e2d630eb20", nonce |-> "0x0", code |-> "0x", storage |-> "{}"]]

\* The accounts the library's fork classes add in pre_allocation_blockchain.
LibraryAllocation(o) ==
    CASE o = "Cancun" -> [a \in {BeaconRootsAddress} |-> [nonce |-> "1", code |-> "0x3373"]]
      [] o = "Prague" -> [a \in {HistoryAddress} |-> [nonce |-> "1", code |-> "0x3373ff"]]
      [] OTHER -> EmptyDict

\* A merge that applies the three sets in the opposite order.
GnosisAllocationOfReversed(chain, system, pre) ==
    DictUnion(DictUnion(DictUnion(EmptyDict, pre), system), chain)

\* gnosis.py 163-166 and gnosis_fork_monkey_patch.py 154-157:
\* gnosis_allocation = {}; update(CHAIN); update(SYSTEM); update(PRE_ALLOCATED).
GnosisAllocationOf(chain, system, pre) ==
    DictUnion(DictUnion(DictUnion(EmptyDict, chain), system), pre)

GnosisAllocation ==
    GnosisAllocationOf(GNOSIS_CHAIN_ACCOUNTS, GNOSIS_SYSTEM_CONTRACTS,
                       GNOSIS_PRE_ALLOCATED_ACCOUNTS)

\* gnosis.py 170: return gnosis_allocation | parent_allocation
GnosisWithParent(gnosis_allocation, parent_allocation) ==
    DictUnion(gnosis_allocation, parent_allocation)

\* gnosis_fork_monkey_patch.py 160 and 191: original_allocation | gnosis_allocation
OriginalWithGnosis(original_allocation, gnosis_allocation) ==
    DictUnion(original_allocation, gnosis_allocation)

\* Calling the pre-allocation method m (attribute n) as a classmethod of cls,
\* in the current class dictionaries and allocation sets.
RECURSIVE CallAlloc(_, _, _)
CallAlloc(m, cls, n) ==
    CASE m.kind = "def" ->
            LET parent_allocation ==
                    CallAlloc(Resolve(class_dict, Parent(m.owner), n), cls, n)
            IN  CASE m.owner = "Frontier" -> EmptyDict
                  [] m.owner = "Gnosis" ->
                        GnosisWithParent(GnosisAllocation, parent_allocation)
                  [] OTHER -> DictUnion(LibraryAllocation(m.owner), parent_allocation)
      [] m.kind = "patched_pre_allocation" ->
            OriginalWithGnosis(CallAlloc(m.orig[1].func, m.orig[1].cls, n),
                               GnosisAllocation)
      [] m.kind = "patched_pre_allocation_2" ->
            OriginalWithGnosis(CallAlloc(m.orig[1].func, m.orig[1].cls, n),
                               GnosisAllocationOf(EmptyDict, EmptyDict,
                                                  GNOSIS_PRE_ALLOCATED_ACCOUNTS))

\* fork.pre_allocation_blockchain() / fork.pre_allocation() for fork f.
PreAllocation(f, n) == CallAlloc(Resolve(class_dict, f, n), f, n)

\* get_forks() as patch_fork_parameters sees it.
GetForks == IF gnosis_listed THEN Append(LibraryForks, "Gnosis") ELSE LibraryForks
ListedForks == {GetForks[i] : i \in 1..Len(GetForks)}

\* A patch that does not ask the fork whether it supports blobs.
PatchBlobParamsUnchecked(cd, fork_class, custom) == custom # EmptyDict

\* gnosis_fork_monkey_patch.py 110-117: patch_blob_params for one fork.
PatchBlobParams(cd, fork_class, custom) ==
    /\ custom # EmptyDict
    /\ HasAttr(cd, fork_class, "supports_blobs")
    /\ SupportsBlobs(cd, fork_class) = "True"

\* gnosis_fork_monkey_patch.py 86-196: one iteration of the loop over forks.
\* st = [orig |-> _original_fork_methods, cd |-> class dictionaries].
PatchFork(st, fork_class, custom, patch_pre) ==
    LET saved == {n \in BlobParams \cup {"pre_allocation_blockchain"} :
                     HasAttr(st.cd, fork_class, n)}
        orig1 == IF fork_class \in DOMAIN st.orig THEN st.orig
                 ELSE DictPut(st.orig, fork_class,
                              [n \in saved |-> GetAttr(st.cd, fork_class, n)])
        patch_blob_params == PatchBlobParams(st.cd, fork_class, custom)
        cd1 == [st.cd EXCEPT ![fork_class] =
                  [n \in MethodNames |->
                      IF n \in BlobParams /\ patch_blob_params /\ n \in DOMAIN custom
                      THEN Lambda(custom[n]) ELSE @[n]]]
        patch_blockchain ==
            patch_pre /\ HasAttr(cd1, fork_class, "pre_allocation_blockchain")
        cd2 == IF patch_blockchain
               THEN [cd1 EXCEPT ![fork_class]["pre_allocation_blockchain"] =
                        Wrapper("patched_pre_allocation",
                                orig1[fork_class]["pre_allocation_blockchain"])]
               ELSE cd1
        patch_state == patch_pre /\ HasAttr(cd2, fork_class, "pre_allocation")
        orig2 == IF patch_state /\ "pre_allocation" \notin DOMAIN orig1[fork_class]
                 THEN [orig1 EXCEPT ![fork_class] =
                          DictPut(@, "pre_allocation",
                                  GetAttr(cd2, fork_class, "pre_allocation"))]
                 ELSE orig1
        cd3 == IF patch_state
               THEN [cd2 EXCEPT ![fork_class]["pre_allocation"] =
                        Wrapper("patched_pre_allocation_2",
                                orig2[fork_class]["pre_allocation"])]
               ELSE cd2
    IN  [orig |-> orig2, cd |-> cd3]

RECURSIVE PatchLoop(_, _, _, _)
PatchLoop(st, forks, custom, patch_pre) ==
    IF forks = <<>> THEN st
    ELSE CHOOSE result \in {PatchLoop(next, Tail(forks), custom, patch_pre) :
                               next \in {PatchFork(st, Head(forks), custom, patch_pre)}} : TRUE

\* gnosis_fork_monkey_patch.py 73-198: patch_fork_parameters() as a function of
\* the globals it reads; returns the new _original_fork_methods and classes.
PatchResult(orig, cd, custom, patch_pre) ==
    IF custom = EmptyDict /\ ~patch_pre
    THEN [orig |-> orig, cd |-> cd]
    ELSE PatchLoop([orig |-> orig, cd |-> cd], GetForks, custom, patch_pre)

\* An optional argument: <<>> is None, <<v>> the value v.
\* gnosis_fork_monkey_patch.py 44-52: the dict of the arguments that are not None.
CustomParams(bf, t, m) ==
    [p \in {q \in BlobParams :
               \/ q = "blob_base_fee_update_fraction" /\ bf # <<>>
               \/ q = "target_blobs_per_block" /\ t # <<>>
               \/ q = "max_blobs_per_block" /\ m # <<>>} |->
        CASE p = "blob_base_fee_update_fraction" -> bf[1]
          [] p = "target_blobs_per_block" -> t[1]
          [] p = "max_blobs_per_block" -> m[1]]

\* gnosis.py 70-79: the three globals.
GnosisParams(bf, t, m) ==
    [p \in BlobParams |->
        CASE p = "blob_base_fee_update_fraction" -> bf
          [] p = "target_blobs_per_block" -> t
          [] p = "max_blobs_per_block" -> m]

DefaultGnosisParams ==
    GnosisParams(DEFAULT_GNOSIS_BLOB_BASE_FEE_UPDATE_FRACTION,
                 DEFAULT_GNOSIS_TARGET_BLOBS_PER_BLOCK,
                 DEFAULT_GNOSIS_MAX_BLOBS_PER_BLOCK)

ForkInit ==
    /\ gnosis_params = DefaultGnosisParams
    /\ GNOSIS_SYSTEM_CONTRACTS = InitialSystemContracts
    /\ GNOSIS_PRE_ALLOCATED_ACCOUNTS = InitialPreAllocatedAccounts
    /\ GNOSIS_CHAIN_ACCOUNTS = InitialChainAccounts
    /\ original_fork_methods = EmptyDict
    /\ custom_fork_params = EmptyDict
    /\ patch_pre_allocation = FALSE
    /\ class_dict = InitialClassDict
    /\ gnosis_listed \in BOOLEAN
    /\ configured = FALSE
    /\ alloc_calls = 0

(***************************************************************************)
(* Inputs of the fork operations.                                          *)
(***************************************************************************)
BlobValues == 1..MaxBlobValue
OptionalBlobValues == {<<>>} \cup {<<v>> : v \in BlobValues}

AddressInputs == {ZeroAddress, TestAddress, BeaconRootsAddress}
AccountInputs ==
    {[nonce |-> "0x05", balance |-> "0x07", code |-> "0x", storage |-> "{}"],
     [balance |-> "0x09"]}

\* gnosis.py 70-79
set_gnosis_fork_parameters(bf, t, m) ==
    /\ gnosis_params' = GnosisParams(bf, t, m)
    /\ UNCHANGED <<GNOSIS_SYSTEM_CONTRACTS, GNOSIS_PRE_ALLOCATED_ACCOUNTS,
                   GNOSIS_CHAIN_ACCOUNTS, original_fork_methods, custom_fork_params,
                   patch_pre_allocation, class_dict, gnosis_listed, configured,
                   alloc_calls>>
    /\ UNCHANGED <<t8nVars, envVars, toolVars, regVars>>

\* gnosis.py 82-84
add_gnosis_system_contract(address, contract_data) ==
    /\ alloc_calls < MaxAllocCalls
    /\ alloc_calls' = alloc_calls + 1
    /\ GNOSIS_SYSTEM_CONTRACTS' = DictPut(GNOSIS_SYSTEM_CONTRACTS, address, contract_data)
    /\ UNCHANGED <<gnosis_params, GNOSIS_PRE_ALLOCATED_ACCOUNTS, GNOSIS_CHAIN_ACCOUNTS,
                   original_fork_methods, custom_fork_params, patch_pre_allocation,
                   class_dict, gnosis_listed, configured>>
    /\ UNCHANGED <<t8nVars, envVars, toolVars, regVars>>

\* gnosis.py 87-89
add_gnosis_account(address, account_data) ==
    /\ alloc_calls < MaxAllocCalls
    /\ alloc_calls' = alloc_calls + 1
    /\ GNOSIS_PRE_ALLOCATED_ACCOUNTS' =
          DictPut(GNOSIS_PRE_ALLOCATED_ACCOUNTS, address, account_data)
    /\ UNCHANGED <<gnosis_params, GNOSIS_SYSTEM_CONTRACTS, GNOSIS_CHAIN_ACCOUNTS,
                   original_fork_methods, custom_fork_params, patch_pre_allocation,
                   class_dict, gnosis_listed, configured>>
    /\ UNCHANGED <<t8nVars, envVars, toolVars, regVars>>

\* gnosis.py 92-102
update_gnosis_account(address, updates) ==
    /\ alloc_calls < MaxAllocCalls
    /\ alloc_calls' = alloc_calls + 1
    /\ IF address \in DOMAIN GNOSIS_PRE_ALLOCATED_ACCOUNTS
       THEN /\ GNOSIS_PRE_ALLOCATED_ACCOUNTS' =
                  [GNOSIS_PRE_ALLOCATED_ACCOUNTS EXCEPT ![address] = DictUnion(@, updates)]
            /\ UNCHANGED <<GNOSIS_SYSTEM_CONTRACTS, GNOSIS_CHAIN_ACCOUNTS>>
       ELSE IF address \in DOMAIN GNOSIS_SYSTEM_CONTRACTS
       THEN /\ GNOSIS_SYSTEM_CONTRACTS' =
                  [GNOSIS_SYSTEM_CONTRACTS EXCEPT ![address] = DictUnion(@, updates)]
            /\ UNCHANGED <<GNOSIS_PRE_ALLOCATED_ACCOUNTS, GNOSIS_CHAIN_ACCOUNTS>>
       ELSE IF address \in DOMAIN GNOSIS_CHAIN_ACCOUNTS
       THEN /\ GNOSIS_CHAIN_ACCOUNTS' =
                  [GNOSIS_CHAIN_ACCOUNTS EXCEPT ![address] = DictUnion(@, updates)]
            /\ UNCHANGED <<GNOSIS_PRE_ALLOCATED_ACCOUNTS, GNOSIS_SYSTEM_CONTRACTS>>
       ELSE /\ GNOSIS_PRE_ALLOCATED_ACCOUNTS' =
                  DictPut(GNOSIS_PRE_ALLOCATED_ACCOUNTS, address, updates)
            /\ UNCHANGED <<GNOSIS_SYSTEM_CONTRACTS, GNOSIS_CHAIN_ACCOUNTS>>
    /\ UNCHANGED <<gnosis_params, original_fork_methods, custom_fork_params,
                   patch_pre_allocation, class_dict, gnosis_listed, configured>>
    /\ UNCHANGED <<t8nVars, envVars, toolVars, regVars>>

\* gnosis_fork_monkey_patch.py 27-52
set_custom_fork_parameters(bf, t, m, pre) ==
    /\ custom_fork_params' = CustomParams(bf, t, m)
    /\ patch_pre_allocation' = pre
    /\ UNCHANGED <<gnosis_params, GNOSIS_SYSTEM_CONTRACTS, GNOSIS_PRE_ALLOCATED_ACCOUNTS,
                   GNOSIS_CHAIN_ACCOUNTS, original_fork_methods, class_dict,
                   gnosis_listed, configured, alloc_calls>>
    /\ UNCHANGED <<t8nVars, envVars, toolVars, regVars>>

\* gnosis_fork_monkey_patch.py 73-198
patch_fork_parameters ==
    /\ UNCHANGED <<gnosis_params, GNOSIS_SYSTEM_CONTRACTS, GNOSIS_PRE_ALLOCATED_ACCOUNTS,
                   GNOSIS_CHAIN_ACCOUNTS, custom_fork_params, patch_pre_allocation,
                   gnosis_listed, configured, alloc_calls>>
    /\ UNCHANGED <<t8nVars, envVars, toolVars, regVars>>
    /\ LET st == PatchResult(original_fork_methods, class_dict,
                             custom_fork_params, patch_pre_allocation)
       IN  /\ original_fork_methods' = st.orig
           /\ class_dict' = st.cd

(***************************************************************************)
(* PART 3.  Environment defaults (pytest_plugins/gnosis/                   *)
(* gnosis_block_types.py) and the plugin (pytest_plugins/gnosis/plugin.py) *)
(***************************************************************************)
\* gnosis_block_types.py 10-17.
GNOSIS_DEFAULT_BASE_FEE == 1000000000
GNOSIS_CURRENT_BLOCK_GAS_LIMIT == 10000000
GNOSIS_DEFAULT_BLOCK_GAS_LIMIT == GNOSIS_CURRENT_BLOCK_GAS_LIMIT
GNOSIS_GENESIS_HASH == "0x92f2bad26c57198059f54c809a588e2acdd8ed140dd92683d570d1d5f83aa9a0"

\* The library's defaults of Environment: gas limit of EnvironmentDefaults,
\* number, timestamp and fee recipient of the field declarations.
LibraryGasLimit == 36000000
LibraryNumber == 1
LibraryTimestamp == 1000
LibraryFeeRecipient == "0x2adc25665018aa1fe0e6bc666dac8fc2697ff9ba"

\* Address(text): hexadecimal text parsed to the address it spells; the two
\* spellings of the default fee recipient are the same address.
UpperCaseSpelling == "0x2ADC25665018AA1FE0E6BC666DAC8FC2697FF9BA"
Address(text) == IF text = UpperCaseSpelling THEN LibraryFeeRecipient ELSE text

\* The Environment fields of the model.  An integer field of an Environment
\* holds <<n>> or <<>> (None), fee_recipient holds <<address>>, block_hashes a
\* dict from block numbers to hashes.
NumberFields ==
    {"gas_limit", "number", "timestamp", "base_fee_per_gas", "difficulty",
     "prev_randao", "excess_blob_gas", "blob_gas_used"}
EnvFields == NumberFields \cup {"fee_recipient", "block_hashes"}

\* Keyword arguments: kwargs[f] = <<>> when f is not passed, <<v>> when passed.
NoKwargs == [f \in EnvFields |-> <<>>]

\* gnosis_block_types.py 20-43: GnosisEnvironmentDefaults().
GnosisEnvironmentDefaults ==
    [gas_limit |-> GNOSIS_DEFAULT_BLOCK_GAS_LIMIT,
     number |-> 0,
     timestamp |-> 0,
     base_fee_per_gas |-> GNOSIS_DEFAULT_BASE_FEE,
     difficulty |-> 131072,
     prev_randao |-> <<>>,
     excess_blob_gas |-> 0,
     blob_gas_used |-> 0,
     fee_recipient |-> ZeroAddress]

\* gnosis_block_types.py 121-141: custom_defaults for the arguments a of
\* patch_environment_defaults_and_class (a.kwargs: the **kwargs dict).
CustomDefaults(a) ==
    LET d0 == GnosisEnvironmentDefaults
        d1 == [d0 EXCEPT
                 !.gas_limit = IF a.gas_limit # <<>> THEN a.gas_limit[1] ELSE @,
                 !.number = IF a.number # <<>> THEN a.number[1] ELSE @,
                 !.timestamp = IF a.timestamp # <<>> THEN a.timestamp[1] ELSE @,
                 !.base_fee_per_gas =
                     IF a.base_fee_per_gas # <<>> THEN a.base_fee_per_gas[1] ELSE @,
                 !.fee_recipient =
                     IF a.fee_recipient # <<>> THEN Address(a.fee_recipient[1]) ELSE @]
    IN  [f \in DOMAIN d1 |-> IF f \in DOMAIN a.kwargs THEN a.kwargs[f] ELSE d1[f]]

\* Environment.model_fields before any patch: no default assigned by the plugin.
InitialModelFields ==
    [number |-> <<>>, timestamp |-> <<>>, fee_recipient |-> <<>>,
     block_hashes_factory |-> FALSE]

\* The library's Environment.__init__: a field passed takes the value passed,
\* another its declared default.  gas_limit's default reads
\* EnvironmentDefaults.gas_limit; rebuilt tells whether the defaults assigned
\* to model_fields after class creation are the ones the validator uses.
LibraryInit(kwargs, defaults_gas_limit, mf, rebuilt) ==
    [f \in EnvFields |->
        IF kwargs[f] # <<>>
        THEN CASE f = "block_hashes" -> kwargs[f][1]
               [] f = "fee_recipient" -> <<Address(kwargs[f][1])>>
               [] OTHER -> kwargs[f]
        ELSE CASE f = "gas_limit" -> <<defaults_gas_limit>>
               [] f = "number" ->
                     IF rebuilt /\ mf.number # <<>> THEN mf.number ELSE <<LibraryNumber>>
               [] f = "timestamp" ->
                     IF rebuilt /\ mf.timestamp # <<>> THEN mf.timestamp
                     ELSE <<LibraryTimestamp>>
               [] f = "fee_recipient" ->
                     IF rebuilt /\ mf.fee_recipient # <<>> THEN mf.fee_recipient
                     ELSE <<LibraryFeeRecipient>>
               [] f = "block_hashes" ->
                     IF rebuilt /\ mf.block_hashes_factory
                     THEN [n \in {0} |-> GNOSIS_GENESIS_HASH]
                     ELSE EmptyDict
               [] OTHER -> <<>>]

\* gnosis_block_types.py 198-216: the keyword arguments patched_init passes on.
FilledKwargs(kwargs_init, custom_defaults) ==
    [f \in EnvFields |->
        IF kwargs_init[f] # <<>> THEN kwargs_init[f]
        ELSE CASE f \in {"number", "timestamp", "base_fee_per_gas", "difficulty",
                         "excess_blob_gas", "blob_gas_used"} -> <<custom_defaults[f]>>
               [] f = "prev_randao" -> custom_defaults.prev_randao
               [] f = "fee_recipient" -> <<Address(custom_defaults.fee_recipient)>>
               [] OTHER -> <<>>]

\* A patched_init that forces its defaults over the values the caller passed.
ForcedFieldsOverCaller(self, original_kwargs, custom_defaults) ==
    [self EXCEPT
        !.number = <<custom_defaults.number>>,
        !.timestamp = <<custom_defaults.timestamp>>,
        !.fee_recipient = <<Address(custom_defaults.fee_recipient)>>]

\* gnosis_block_types.py 223-229: the attributes forced after the inner init.
ForcedFields(self, original_kwargs, custom_defaults) ==
    [self EXCEPT
        !.number = IF original_kwargs["number"] = <<>>
                   THEN <<custom_defaults.number>> ELSE @,
        !.timestamp = IF original_kwargs["timestamp"] = <<>>
                      THEN <<custom_defaults.timestamp>> ELSE @,
        !.fee_recipient = IF original_kwargs["fee_recipient"] = <<>>
                          THEN <<Address(custom_defaults.fee_recipient)>> ELSE @]

\* gnosis_block_types.py 231-241: the genesis entry of block_hashes.
InjectGenesisHash(self, original_kwargs, patch_genesis_hash) ==
    IF /\ patch_genesis_hash
       /\ original_kwargs["block_hashes"] = <<>>
       /\ (self.block_hashes = EmptyDict \/ 0 \notin DOMAIN self.block_hashes)
    THEN [self EXCEPT !.block_hashes = DictPut(@, 0, GNOSIS_GENESIS_HASH)]
    ELSE self

\* Environment.__init__ with the closures init[1..i] installed:
\* gnosis_block_types.py 194-241, patched_init of closure i around the
\* __init__ that was in place when it was created (191).
RECURSIVE EnvironmentInit(_, _, _, _, _, _)
EnvironmentInit(init, i, kwargs_init, defaults_gas_limit, mf, rebuilt) ==
    IF i = 0 THEN LibraryInit(kwargs_init, defaults_gas_limit, mf, rebuilt)
    ELSE LET closure == init[i]
             original_kwargs == kwargs_init
             inner == EnvironmentInit(init, i - 1,
                                      FilledKwargs(kwargs_init, closure.custom_defaults),
                                      defaults_gas_limit, mf, rebuilt)
             forced == ForcedFields(inner, original_kwargs, closure.custom_defaults)
         IN  InjectGenesisHash(forced, original_kwargs, closure.patch_genesis_hash)

\* The library's Environment.set_fork_requirements, on the fields of the model.
LibrarySetForkRequirements(self) == self

\* gnosis_block_types.py 62-83: patched_set_fork_requirements.
PatchedSetForkRequirements(self) ==
    LET result == LibrarySetForkRequirements(self)
        block_hashes == IF self.block_hashes # EmptyDict THEN self.block_hashes
                        ELSE result.block_hashes
    IN  [result EXCEPT !.block_hashes = DictPut(block_hashes, 0, GNOSIS_GENESIS_HASH)]

\* Environment.set_fork_requirements as currently bound.
CallSetForkRequirements(method, self) ==
    IF method = "patched_set_fork_requirements"
    THEN PatchedSetForkRequirements(self)
    ELSE LibrarySetForkRequirements(self)

\* The state patch_environment_defaults_and_class reads and writes.
EnvPatchState ==
    [EnvironmentDefaults |-> EnvironmentDefaults,
     original_defaults |-> original_defaults,
     original_environment_class |-> original_environment_class,
     original_set_fork_requirements |-> original_set_fork_requirements,
     set_fork_requirements |-> set_fork_requirements,
     model_fields |-> model_fields,
     environment_init |-> environment_init]

\* gnosis_block_types.py 52-86: _patch_set_fork_requirements().
PatchSetForkRequirements(es) ==
    [es EXCEPT
        !.original_set_fork_requirements =
            IF @ = <<>> THEN <<es.set_fork_requirements>> ELSE @,
        !.set_fork_requirements = "patched_set_fork_requirements"]

\* gnosis_block_types.py 89-252: patch_environment_defaults_and_class(**a) as a
\* function of the state es it finds.
PatchEnvironmentResult(es, a) ==
    LET custom_defaults == CustomDefaults(a)
        es1 == [es EXCEPT
                  !.original_defaults =
                      IF @ = <<>> THEN <<es.EnvironmentDefaults>> ELSE @,
                  !.original_environment_class = <<"Environment">>,
                  !.EnvironmentDefaults = custom_defaults.gas_limit,
                  !.model_fields =
                      [number |-> <<custom_defaults.number>>,
                       timestamp |-> <<custom_defaults.timestamp>>,
                       fee_recipient |-> <<Address(custom_defaults.fee_recipient)>>,
                       block_hashes_factory |->
                           a.patch_genesis_hash \/ @.block_hashes_factory],
                  !.environment_init =
                      Append(@, [custom_defaults |-> custom_defaults,
                                 patch_genesis_hash |-> a.patch_genesis_hash])]
    IN  IF a.patch_genesis_hash THEN PatchSetForkRequirements(es1) ELSE es1

\* The library's TransactionDefaults.
LibraryGasPrice == 10
LibraryMaxFeePerGas == 7
InitialTransactionDefaults ==
    [gas_price |-> LibraryGasPrice, max_fee_per_gas |-> LibraryMaxFeePerGas,
     original_gas_price |-> <<>>, original_max_fee_per_gas |-> <<>>]

\* plugin.py 11-33: patch_transaction_defaults_for_gnosis().
PatchTransactionDefaults(td) ==
    LET saved == IF td.original_gas_price = <<>>
                 THEN [td EXCEPT !.original_gas_price = <<td.gas_price>>,
                                 !.original_max_fee_per_gas = <<td.max_fee_per_gas>>]
                 ELSE td
    IN  [saved EXCEPT !.gas_price = 2000000000, !.max_fee_per_gas = 2000000000]

\* The command line: --gnosis, --gnosis-patch-genesis-hash and the integer
\* options, <<>> when not given (plugin.py 83-169).
EnvOptions ==
    {"gnosis_gas_limit", "gnosis_number", "gnosis_timestamp", "gnosis_base_fee",
     "gnosis_difficulty", "gnosis_excess_blob_gas"}
BlobOptions ==
    {"gnosis_blob_base_fee_update_fraction", "gnosis_target_blobs_per_block",
     "gnosis_max_blobs_per_block"}
NoConfig ==
    [gnosis |-> FALSE, gnosis_patch_genesis_hash |-> FALSE,
     options |-> [o \in EnvOptions \cup BlobOptions |-> <<>>]]

\* built_with: how many patched_init closures Environment.__init__ had when the
\* environment was built.
NoEnvironment ==
    [stage |-> "none", kwargs |-> NoKwargs, built_with |-> 0,
     fields |-> LibraryInit(NoKwargs, LibraryGasLimit, InitialModelFields, FALSE)]

EnvInit ==
    /\ config = NoConfig
    /\ EnvironmentDefaults = LibraryGasLimit
    /\ original_defaults = <<>>
    /\ original_environment_class = <<>>
    /\ original_set_fork_requirements = <<>>
    /\ set_fork_requirements = "set_fork_requirements"
    /\ model_fields = InitialModelFields
    /\ environment_init = <<>>
    /\ TransactionDefaults = InitialTransactionDefaults
    /\ environment = NoEnvironment

\* gnosis_block_types.py 89-267
patch_environment_defaults_and_class(a) ==
    /\ Len(environment_init) < MaxPatchCalls
    /\ LET es == PatchEnvironmentResult(EnvPatchState, a)
       IN  /\ EnvironmentDefaults' = es.EnvironmentDefaults
           /\ original_defaults' = es.original_defaults
           /\ original_environment_class' = es.original_environment_class
           /\ original_set_fork_requirements' = es.original_set_fork_requirements
           /\ set_fork_requirements' = es.set_fork_requirements
           /\ model_fields' = es.model_fields
           /\ environment_init' = es.environment_init
    /\ UNCHANGED <<config, TransactionDefaults, environment>>
    /\ UNCHANGED <<t8nVars, forkVars, toolVars, regVars>>

\* A test builds Environment(**kwargs): Environment.__init__ as patched so far.
Environment(kwargs) ==
    /\ \E rebuilt \in BOOLEAN :
          environment' =
              [stage |-> "built", kwargs |-> kwargs,
               built_with |-> Len(environment_init),
               fields |-> EnvironmentInit(environment_init, Len(environment_init),
                                          kwargs, EnvironmentDefaults, model_fields,
                                          rebuilt)]
    /\ UNCHANGED <<config, EnvironmentDefaults, original_defaults,
                   original_environment_class, original_set_fork_requirements,
                   set_fork_requirements, model_fields, environment_init,
                   TransactionDefaults>>
    /\ UNCHANGED <<t8nVars, forkVars, toolVars, regVars>>

\* The framework calls env.set_fork_requirements(fork) on the environment.
SetForkRequirements ==
    /\ environment.stage # "none"
    /\ environment' =
          [environment EXCEPT
              !.stage = "filled",
              !.fields = CallSetForkRequirements(set_fork_requirements, @)]
    /\ UNCHANGED <<config, EnvironmentDefaults, original_defaults,
                   original_environment_class, original_set_fork_requirements,
                   set_fork_requirements, model_fields, environment_init,
                   TransactionDefaults>>
    /\ UNCHANGED <<t8nVars, forkVars, toolVars, regVars>>

\* any(fork_options), plugin.py 191: None and 0 are false.
Truthy(opt) == opt # <<>> /\ opt[1] # 0

\* plugin.py 206-213: an unspecified option takes the Gnosis default under --gnosis.
FinalOption(opt, use_gnosis, default) ==
    IF use_gnosis /\ opt = <<>> THEN <<default>> ELSE opt

\* plugin.py 216-224: set_gnosis_fork_parameters(**fork_params); an argument
\* left out takes the default of gnosis.py 71-73.
ArgumentOrDefault(opt, default) == IF opt = <<>> THEN default ELSE opt[1]

\* `option or default` (plugin.py 50-57): None and 0 give the default.
OptionOr(opt, default) == IF Truthy(opt) THEN opt[1] ELSE default

\* plugin.py 49-62: gnosis_options, the arguments of
\* patch_environment_defaults_and_class.
GnosisOptions(cfg) ==
    [gas_limit |-> <<OptionOr(cfg.options["gnosis_gas_limit"],
                              GNOSIS_DEFAULT_BLOCK_GAS_LIMIT)>>,
     number |-> <<OptionOr(cfg.options["gnosis_number"], 1)>>,
     timestamp |-> <<OptionOr(cfg.options["gnosis_timestamp"], 1000)>>,
     base_fee_per_gas |-> <<OptionOr(cfg.options["gnosis_base_fee"],
                                     GNOSIS_DEFAULT_BASE_FEE)>>,
     fee_recipient |-> <<"0x2adc25665018aa1fe0e6bc666dac8fc2697ff9ba">>,
     patch_genesis_hash |-> TRUE,
     kwargs |-> [k \in {"difficulty", "excess_blob_gas"} |->
                    IF k = "difficulty"
                    THEN OptionOr(cfg.options["gnosis_difficulty"], 131072)
                    ELSE OptionOr(cfg.options["gnosis_excess_blob_gas"], 0)]]

\* plugin.py 39-77: GnosisPlugin.__init__(config), on the Environment patch
\* state es and the transaction defaults td.
GnosisPlugin(cfg, es, td) ==
    IF cfg.gnosis
    THEN [es |-> PatchEnvironmentResult(es, GnosisOptions(cfg)),
          td |-> PatchTransactionDefaults(td)]
    ELSE [es |-> es, td |-> td]

\* plugin.py 172-244: pytest_configure(config); cfg is the parsed command line.
pytest_configure(cfg) ==
    /\ ~configured
    /\ configured' = TRUE
    /\ config' = cfg
    /\ LET plugin == GnosisPlugin(cfg, EnvPatchState, TransactionDefaults)
       IN  /\ EnvironmentDefaults' = plugin.es.EnvironmentDefaults
           /\ original_defaults' = plugin.es.original_defaults
           /\ original_environment_class' = plugin.es.original_environment_class
           /\ original_set_fork_requirements' = plugin.es.original_set_fork_requirements
           /\ set_fork_requirements' = plugin.es.set_fork_requirements
           /\ model_fields' = plugin.es.model_fields
           /\ environment_init' = plugin.es.environment_init
           /\ TransactionDefaults' = plugin.td
    /\ LET use_gnosis == cfg.gnosis
           blob_base_fee_update_fraction ==
               cfg.options["gnosis_blob_base_fee_update_fraction"]
           target_blobs_per_block == cfg.options["gnosis_target_blobs_per_block"]
           max_blobs_per_block == cfg.options["gnosis_max_blobs_per_block"]
       IN  IF \/ Truthy(blob_base_fee_update_fraction)
              \/ Truthy(target_blobs_per_block)
              \/ Truthy(max_blobs_per_block)
              \/ use_gnosis
           THEN LET final_bf == FinalOption(blob_base_fee_update_fraction, use_gnosis,
                                    DEFAULT_GNOSIS_BLOB_BASE_FEE_UPDATE_FRACTION)
                    final_t == FinalOption(target_blobs_per_block, use_gnosis,
                                    DEFAULT_GNOSIS_TARGET_BLOBS_PER_BLOCK)
                    final_m == FinalOption(max_blobs_per_block, use_gnosis,
                                    DEFAULT_GNOSIS_MAX_BLOBS_PER_BLOCK)
                    custom == CustomParams(final_bf, final_t, final_m)
                    st == PatchResult(original_fork_methods, class_dict, custom,
                                      use_gnosis)
                IN  /\ gnosis_params' =
                          GnosisParams(
                            ArgumentOrDefault(final_bf,
                                DEFAULT_GNOSIS_BLOB_BASE_FEE_UPDATE_FRACTION),
                            ArgumentOrDefault(final_t,
                                DEFAULT_GNOSIS_TARGET_BLOBS_PER_BLOCK),
                            ArgumentOrDefault(final_m,
                                DEFAULT_GNOSIS_MAX_BLOBS_PER_BLOCK))
                    /\ custom_fork_params' = custom
                    /\ patch_pre_allocation' = use_gnosis
                    /\ original_fork_methods' = st.orig
                    /\ class_dict' = st.cd
           ELSE UNCHANGED <<gnosis_params, custom_fork_params, patch_pre_allocation,
                            original_fork_methods, class_dict>>
    /\ UNCHANGED <<GNOSIS_SYSTEM_CONTRACTS, GNOSIS_PRE_ALLOCATED_ACCOUNTS,
                   GNOSIS_CHAIN_ACCOUNTS, gnosis_listed, alloc_calls, environment>>
    /\ UNCHANGED <<t8nVars, toolVars, regVars>>

(***************************************************************************)
(* PART 4.  The header-hash tool (cli/header_hash.py)                      *)
(***************************************************************************)
\* Invocations of the tool.
Runs == {"r1", "r2"}

\* JSON header documents: four that FixtureHeader accepts, one it rejects.
AcceptedDocuments == {"header1", "header2", "header3", "header4"}
HeaderDocuments == AcceptedDocuments \cup {"not_a_header"}
\* --rlp-out: not given, or a path.
RlpOutInputs == {<<>>, <<"out/a.rlp">>, <<"out/b.rlp">>}

(***************************************************************************)
(* Header canonicalization.  An integer of unbounded size is the sequence  *)
(* of its hexadecimal digits, most significant first, without leading      *)
(* zeros (0 is the empty sequence); a byte string is a sequence of 0..255. *)
(***************************************************************************)
Repeat(x, n) == [i \in 1..n |-> x]

RECURSIVE StripLeadingZeros(_)
StripLeadingZeros(s) ==
    IF s # <<>> /\ Head(s) = 0 THEN StripLeadingZeros(Tail(s)) ELSE s

\* The numeric value of a digit sequence in the given base (small values only).
RECURSIVE ValueOfDigits(_, _)
ValueOfDigits(s, base) ==
    IF s = <<>> THEN 0 ELSE ValueOfDigits(SubSeq(s, 1, Len(s) - 1), base) * base + s[Len(s)]

\* Parsing the text of a hexadecimal number ("0x" followed by digits, zero
\* padded or not) to the integer it denotes.
HexNumber(text) == StripLeadingZeros(text)

\* An encoding that writes the integer 0 as the single byte 0x00.
IntToBytesZeroByte(n) ==
    LET digits == IF Len(n) % 2 = 1 \/ n = <<>> THEN <<0>> \o n ELSE n
    IN  IF n = <<>> THEN <<0>>
        ELSE [i \in 1..(Len(digits) \div 2) |-> digits[2 * i - 1] * 16 + digits[2 * i]]

\* Integers are minimal-byte big-endian encodings of their numeric value;
\* zero encodes as the empty byte string.
IntToBytes(n) ==
    LET digits == IF Len(n) % 2 = 1 THEN <<0>> \o n ELSE n
    IN  [i \in 1..(Len(digits) \div 2) |-> digits[2 * i - 1] * 16 + digits[2 * i]]

\* The reference decoder's integer: the big-endian value of a byte string.
BytesToInt(b) ==
    StripLeadingZeros([i \in 1..(2 * Len(b)) |->
                          IF i % 2 = 1 THEN b[(i + 1) \div 2] \div 16
                          ELSE b[i \div 2] % 16])

\* A length as minimal big-endian bytes.
RECURSIVE LengthBytes(_)
LengthBytes(n) == IF n = 0 THEN <<>> ELSE Append(LengthBytes(n \div 256), n % 256)

\* The recursive-length-prefix encoding of one byte string.
RlpBytes(b) ==
    IF Len(b) = 1 /\ b[1] < 128 THEN b
    ELSE IF Len(b) <= 55 THEN <<128 + Len(b)>> \o b
    ELSE <<183 + Len(LengthBytes(Len(b)))>> \o LengthBytes(Len(b)) \o b

RECURSIVE Concat(_)
Concat(ss) == IF ss = <<>> THEN <<>> ELSE Head(ss) \o Concat(Tail(ss))

\* The encoding of a list of byte strings: the ordered, length-prefixed
\* encoding of the field sequence.
RlpSequence(items) ==
    LET payload == Concat([i \in 1..Len(items) |-> RlpBytes(items[i])])
    IN  IF Len(payload) <= 55 THEN <<192 + Len(payload)>> \o payload
        ELSE <<247 + Len(LengthBytes(Len(payload)))>> \o LengthBytes(Len(payload)) \o payload

\* The reference decoder: the byte strings encoded one after another in a payload.
RECURSIVE RlpDecodeItems(_)
RlpDecodeItems(payload) ==
    IF payload = <<>> THEN <<>>
    ELSE LET p == payload[1]
             ll == IF p > 183 THEN p - 183 ELSE 0
             start == IF p < 128 THEN 1 ELSE 2 + ll
             length == IF p < 128 THEN 1
                       ELSE IF p <= 183 THEN p - 128
                       ELSE ValueOfDigits(SubSeq(payload, 2, 1 + ll), 256)
         IN  <<SubSeq(payload, start, start + length - 1)>>
                 \o RlpDecodeItems(SubSeq(payload, start + length, Len(payload)))

\* The reference decoder: the items of an encoded list.
RlpDecodeSequence(encoding) ==
    LET p == encoding[1]
        ll == IF p > 247 THEN p - 247 ELSE 0
    IN  RlpDecodeItems(SubSeq(encoding, 2 + ll, Len(encoding)))

\* The fixed header field sequence of the model, in encoding order, and which
\* of the fields are integers.
HeaderSequence ==
    <<"parent_hash", "difficulty", "number", "gas_limit", "gas_used", "timestamp",
      "extra_data", "base_fee_per_gas", "blob_gas_used", "excess_blob_gas">>
IntegerFields ==
    {"difficulty", "number", "gas_limit", "gas_used", "timestamp",
     "base_fee_per_gas", "blob_gas_used", "excess_blob_gas"}

\* The boundary values as hexadecimal text: 0x00, 0x01, 0xff..ff (2^64 - 1),
\* 0xff..ff (2^256 - 1).
BoundaryTexts == <<<<0, 0>>, <<0, 1>>, Repeat(15, 16), Repeat(15, 64)>>

\* load_json (header_hash.py 10-12, 32): the fields of a header document.
\* Each document gives every integer field one boundary value; over the four
\* documents every integer field takes every boundary value.
LoadJson(json_path) ==
    LET d == CASE json_path = "header1" -> 0
               [] json_path = "header2" -> 1
               [] json_path = "header3" -> 2
               [] OTHER -> 3
        position(f) == CHOOSE i \in 1..Len(HeaderSequence) : HeaderSequence[i] = f
    IN  [f \in {HeaderSequence[i] : i \in 1..Len(HeaderSequence)} |->
            CASE f = "parent_hash" -> Repeat(171, 32)
              [] f = "extra_data" -> IF d % 2 = 0 THEN <<>> ELSE <<0>>
              [] OTHER -> BoundaryTexts[((d + position(f)) % 4) + 1]]

\* FixtureHeader(**data): integer fields are parsed from their text.
FixtureHeaderFields(data) ==
    [f \in DOMAIN data |-> IF f \in IntegerFields THEN HexNumber(data[f]) ELSE data[f]]

\* The byte strings of the field sequence, integers as IntToBytes gives them.
HeaderItems(fields) ==
    [i \in 1..Len(HeaderSequence) |->
        IF HeaderSequence[i] \in IntegerFields THEN IntToBytes(fields[HeaderSequence[i]])
        ELSE fields[HeaderSequence[i]]]

\* The reference decoder applied to a header encoding: the field values.
DecodeHeader(encoding) ==
    LET items == RlpDecodeSequence(encoding)
    IN  [f \in {HeaderSequence[i] : i \in 1..Len(HeaderSequence)} |->
            LET i == CHOOSE j \in 1..Len(HeaderSequence) : HeaderSequence[j] = f
            IN  IF f \in IntegerFields THEN BytesToInt(items[i]) ELSE items[i]]

\* FixtureHeader of the fixture code: the encoding of a header, its hash (the
\* hash of the encoding), and the text of each.
Rlp(data) == RlpSequence(HeaderItems(FixtureHeaderFields(LoadJson(data))))
BlockHash(data) == [keccak256_of |-> Rlp(data)]
Str(value) == [text_of |-> value]
\* What computing property p prints (internal debug prints).
DebugPrints(p) == <<[debug |-> p]>>

\* A header object: its fields and the properties computed so far (rlp and
\* block_hash are computed once and kept).
NewHeader(data) == [data |-> data, computed |-> {}]

\* header.rlp and header.block_hash: the header afterwards and the lines
\* printed by the access.
GetRlp(header) ==
    IF "rlp" \in header.computed
    THEN [header |-> header, printed |-> <<>>]
    ELSE [header |-> [header EXCEPT !.computed = @ \cup {"rlp"}],
          printed |-> DebugPrints("rlp")]
GetBlockHash(header) ==
    IF "block_hash" \in header.computed
    THEN [header |-> header, printed |-> <<>>]
    ELSE LET r == GetRlp(header)
         IN  [header |-> [r.header EXCEPT !.computed = @ \cup {"block_hash"}],
              printed |-> r.printed \o DebugPrints("block_hash")]

\* A `with` block that leaves sys.stdout as it is.
RedirectStdoutMissing(stdout, printed) == [stdout |-> stdout \o printed, buf |-> <<>>]

\* header_hash.py 39: with io.StringIO() as _buf, redirect_stdout(_buf):
\* what is printed inside goes to _buf.
RedirectStdout(stdout, printed) == [stdout |-> stdout, buf |-> printed]

IdleRun ==
    [pc |-> "idle", json_path |-> "", rlp_out |-> <<>>, header |-> NewHeader(""),
     block_hash_hex |-> <<>>, stdout |-> <<>>, buf |-> <<>>, writes |-> <<>>,
     result |-> <<>>, raised |-> ""]

ToolInit ==
    /\ tool = [r \in Runs |-> IdleRun]
    /\ files = EmptyDict

\* header_hash.py 15-35: parse the arguments, load the document, build the header.
MainStart(r, json_path, rlp_out) ==
    /\ tool[r].pc \in {"idle", "done"}
    /\ tool' = [tool EXCEPT ![r] =
          IF json_path \in AcceptedDocuments
          THEN [IdleRun EXCEPT !.pc = "compute", !.json_path = json_path,
                               !.rlp_out = rlp_out, !.header = NewHeader(json_path)]
          ELSE [IdleRun EXCEPT !.pc = "done", !.json_path = json_path,
                               !.rlp_out = rlp_out, !.raised = "ValidationError"]]
    /\ UNCHANGED files
    /\ UNCHANGED <<t8nVars, forkVars, envVars, regVars>>

\* header_hash.py 39-41: compute the encoding and the hash with stdout redirected.
MainCompute(r) ==
    /\ tool[r].pc = "compute"
    /\ LET a == GetRlp(tool[r].header)
           b == GetBlockHash(a.header)
           out == RedirectStdout(tool[r].stdout, a.printed \o b.printed)
       IN  tool' = [tool EXCEPT ![r] =
              [@ EXCEPT !.pc = "write", !.header = b.header,
                        !.block_hash_hex = <<Str(BlockHash(b.header.data))>>,
                        !.stdout = out.stdout, !.buf = out.buf]]
    /\ UNCHANGED files
    /\ UNCHANGED <<t8nVars, forkVars, envVars, regVars>>

\* header_hash.py 44-46: write the encoding when --rlp-out is given.
MainWrite(r) ==
    /\ tool[r].pc = "write"
    /\ IF tool[r].rlp_out # <<>>
       THEN LET a == GetRlp(tool[r].header)
                text == Str(Rlp(a.header.data))
            IN  /\ files' = DictPut(files, tool[r].rlp_out[1], text)
                /\ tool' = [tool EXCEPT ![r] =
                      [@ EXCEPT !.pc = "print", !.header = a.header,
                                !.stdout = @ \o a.printed,
                                !.writes = Append(@, [path |-> tool[r].rlp_out[1],
                                                      text |-> text])]]
       ELSE /\ tool' = [tool EXCEPT ![r].pc = "print"]
            /\ UNCHANGED files
    /\ UNCHANGED <<t8nVars, forkVars, envVars, regVars>>

\* header_hash.py 49-50: print the hash and return 0.
MainPrint(r) ==
    /\ tool[r].pc = "print"
    /\ tool' = [tool EXCEPT ![r] =
          [@ EXCEPT !.pc = "done", !.stdout = Append(@, tool[r].block_hash_hex[1]),
                    !.result = <<0>>]]
    /\ UNCHANGED files
    /\ UNCHANGED <<t8nVars, forkVars, envVars, regVars>>

ToolNext ==
    \E r \in Runs :
        \/ \E d \in HeaderDocuments, o \in RlpOutInputs : MainStart(r, d, o)
        \/ MainCompute(r)
        \/ MainWrite(r)
        \/ MainPrint(r)

(***************************************************************************)
(* PART 5.  Fork registration (gnosis.py 173-212)                          *)
(***************************************************************************)
\* gnosis.py 180-185: patched_get_forks(), around the original get_forks.
PatchedGetForks ==
    LET forks == GetForks
    IN  IF ~(\E i \in 1..Len(forks) : forks[i] = "Gnosis")
        THEN Append(forks, "Gnosis") ELSE forks

\* ethereum_test_forks.helpers.get_forks() as currently bound.
HelpersGetForks ==
    IF helpers_get_forks = "patched_get_forks" THEN PatchedGetForks ELSE GetForks

\* gnosis.py 15 and 195: the name get_forks of module gnosis, bound by
\* `from ethereum_test_forks.helpers import get_forks` when the module is imported.
ModuleGetForks == GetForks

RegInit ==
    /\ helpers_get_forks = "get_forks"
    /\ registration = "not_run"

\* gnosis.py 173-212: the session fixture.
gnosis_fork_registrar ==
    /\ registration = "not_run"
    /\ helpers_get_forks' = "patched_get_forks"
    /\ LET available_forks == ModuleGetForks
       IN  registration' =
              IF \E i \in 1..Len(available_forks) : available_forks[i] = "Gnosis"
              THEN "passed" ELSE "AssertionError"
    /\ UNCHANGED <<t8nVars, forkVars, envVars, toolVars>>

(***************************************************************************)
(* The specifications of the fork operations.                              *)
(***************************************************************************)
SetCustomBlobParameters ==
    \E bf, t, m \in OptionalBlobValues :
        set_custom_fork_parameters(bf, t, m, FALSE)

SetCustomPreAllocation ==
    \E pre \in BOOLEAN : set_custom_fork_parameters(<<>>, <<>>, <<>>, pre)

AddGnosisSystemContract ==
    \E a \in AddressInputs, d \in AccountInputs : add_gnosis_system_contract(a, d)

AddGnosisAccount ==
    \E a \in AddressInputs, d \in AccountInputs : add_gnosis_account(a, d)

UpdateGnosisAccount ==
    \E a \in AddressInputs, d \in AccountInputs : update_gnosis_account(a, d)

SetGnosisForkParameters ==
    \E bf, t, m \in BlobValues : set_gnosis_fork_parameters(bf, t, m)

\* A command line with blob options only.
BlobConfig(use_gnosis, bf, t, m) ==
    [NoConfig EXCEPT
        !.gnosis = use_gnosis,
        !.options["gnosis_blob_base_fee_update_fraction"] = bf,
        !.options["gnosis_target_blobs_per_block"] = t,
        !.options["gnosis_max_blobs_per_block"] = m]

PytestConfigure ==
    \E use_gnosis \in BOOLEAN, bf, t, m \in OptionalBlobValues :
        pytest_configure(BlobConfig(use_gnosis, bf, t, m))

\* Arguments of direct calls of patch_environment_defaults_and_class: nothing
\* (with and without patch_genesis_hash), block defaults, consensus defaults
\* through **kwargs (one key is no attribute of the defaults), a fee recipient.
NoPatchArguments ==
    [gas_limit |-> <<>>, number |-> <<>>, timestamp |-> <<>>, base_fee_per_gas |-> <<>>,
     fee_recipient |-> <<>>, patch_genesis_hash |-> FALSE, kwargs |-> EmptyDict]
PatchInputs ==
    {NoPatchArguments,
     [NoPatchArguments EXCEPT !.patch_genesis_hash = TRUE],
     [NoPatchArguments EXCEPT !.gas_limit = <<30000000>>, !.number = <<7>>,
                              !.base_fee_per_gas = <<8>>, !.patch_genesis_hash = TRUE],
     [NoPatchArguments EXCEPT
         !.kwargs = [k \in {"prev_randao", "difficulty", "chain_id"} |->
                        CASE k = "prev_randao" -> <<5>>
                          [] k = "difficulty" -> 0
                          [] OTHER -> 100]],
     [NoPatchArguments EXCEPT !.timestamp = <<0>>,
                              !.fee_recipient = <<UpperCaseSpelling>>,
                              !.patch_genesis_hash = TRUE]}

\* What tests pass to Environment(...): nothing, one field, every field; for
\* block_hashes no map, an empty map, a map without block 0, maps with block 0.
CallerHash1 == "0x1111111111111111111111111111111111111111111111111111111111111111"
CallerHash2 == "0x2222222222222222222222222222222222222222222222222222222222222222"
BlockHashesInputs ==
    {EmptyDict,
     [n \in {1} |-> CallerHash1],
     [n \in {0} |-> CallerHash2],
     [n \in {0, 1} |-> IF n = 0 THEN CallerHash2 ELSE CallerHash1]}
CallerValue(f) ==
    CASE f = "fee_recipient" -> TestAddress
      [] f = "gas_limit" -> 21000
      [] OTHER -> 3
AllPassed(block_hashes) ==
    [f \in EnvFields |->
        IF f = "block_hashes" THEN block_hashes ELSE <<CallerValue(f)>>]
KwargsInputs ==
    {NoKwargs}
    \cup {[NoKwargs EXCEPT ![f] = <<CallerValue(f)>>] : f \in EnvFields \ {"block_hashes"}}
    \cup {[NoKwargs EXCEPT !["block_hashes"] = <<bh>>] : bh \in BlockHashesInputs}
    \cup {[NoKwargs EXCEPT !["fee_recipient"] = <<UpperCaseSpelling>>]}
    \cup {AllPassed(<<>>)}
    \cup {AllPassed(<<bh>>) : bh \in BlockHashesInputs}

\* Command lines with Environment options.
OptionInputs(o) ==
    CASE o = "gnosis_number" -> {<<>>, <<0>>, <<3>>}
      [] o = "gnosis_gas_limit" -> {<<>>, <<21000>>}
      [] o = "gnosis_timestamp" -> {<<>>, <<0>>}
      [] o = "gnosis_base_fee" -> {<<>>, <<0>>, <<2100000000>>}
      [] o = "gnosis_difficulty" -> {<<>>, <<0>>}
      [] o = "gnosis_excess_blob_gas" -> {<<>>, <<3>>}
      [] o = "gnosis_max_blobs_per_block" -> {<<>>, <<1>>}
      [] OTHER -> {<<>>}
\* Command lines giving no option, one option, or two options.
OptionsInputs ==
    {[[o \in EnvOptions \cup BlobOptions |-> <<>>] EXCEPT ![o1] = v1, ![o2] = v2] :
        <<o1, v1, o2, v2>> \in
            {<<a, x, b, y>> \in (EnvOptions \cup BlobOptions)
                                 \X {<<>>, <<0>>, <<1>>, <<3>>, <<21000>>, <<2100000000>>}
                                 \X (EnvOptions \cup BlobOptions)
                                 \X {<<>>, <<0>>, <<1>>, <<3>>, <<21000>>, <<2100000000>>} :
                x \in OptionInputs(a) /\ y \in OptionInputs(b)}}
ConfigInputs ==
    {[gnosis |-> g, gnosis_patch_genesis_hash |-> p, options |-> opts] :
        g \in BOOLEAN, p \in BOOLEAN, opts \in OptionsInputs}

PatchEnvironment == \E a \in PatchInputs : patch_environment_defaults_and_class(a)

BuildEnvironment == \E kwargs \in KwargsInputs : Environment(kwargs)

PytestConfigureOptions == \E cfg \in ConfigInputs : pytest_configure(cfg)

EnvNext == PatchEnvironment \/ BuildEnvironment \/ SetForkRequirements

PluginNext == PytestConfigureOptions \/ BuildEnvironment \/ SetForkRequirements

RegistrarNext ==
    \/ gnosis_fork_registrar
    \/ SetCustomBlobParameters
    \/ SetCustomPreAllocation
    \/ patch_fork_parameters

BlobNext == SetCustomBlobParameters \/ patch_fork_parameters

AllocNext ==
    \/ AddGnosisSystemContract
    \/ AddGnosisAccount
    \/ UpdateGnosisAccount
    \/ SetCustomPreAllocation
    \/ patch_fork_parameters

ConfigureNext == PytestConfigure \/ SetGnosisForkParameters

(***************************************************************************)
(* Claims about allocation composition and fork parameters.                *)
(***************************************************************************)
Blockchain == "pre_allocation_blockchain"

\* R holds every address of A or B and, for an address of B, B's whole record.
OverrideWins(R, A, B) ==
    /\ DOMAIN R = DOMAIN A \cup DOMAIN B
    /\ \A a \in DOMAIN B : R[a] = B[a]
    /\ \A a \in DOMAIN A \ DOMAIN B : R[a] = A[a]

\* The allocation the wrapper installed on fork f (attribute n) wraps.
WrappedAllocation(f, n) ==
    CallAlloc(class_dict[f][n].orig[1].func, class_dict[f][n].orig[1].cls, n)

\* C6, the Gnosis class: B = the Gnosis sets, A = the Cancun parent allocation.
C6_GnosisClassPart ==
    OverrideWins(PreAllocation("Gnosis", Blockchain),
                 CallAlloc(Resolve(class_dict, "Cancun", Blockchain), "Gnosis", Blockchain),
                 GnosisAllocation)

\* C6, the pre_allocation_blockchain installed by patch_fork_parameters.
C6_PatchedBlockchainPart ==
    \A f \in AllForks :
        class_dict[f][Blockchain].kind = "patched_pre_allocation"
            => OverrideWins(PreAllocation(f, Blockchain),
                            WrappedAllocation(f, Blockchain), GnosisAllocation)

\* C6, the pre_allocation installed by patch_fork_parameters.
C6_PatchedStatePart ==
    \A f \in AllForks :
        class_dict[f]["pre_allocation"].kind = "patched_pre_allocation_2"
            => OverrideWins(PreAllocation(f, "pre_allocation"),
                            WrappedAllocation(f, "pre_allocation"), GnosisAllocation)

\* C6: allocation composition is last-write-wins with the Gnosis allocation B
\* as the override of the base allocation A: the resolved pre-allocation holds
\* every address of A or B, and B's whole record for an address in both; for
\* the Gnosis class's pre_allocation_blockchain and for the
\* pre_allocation_blockchain / pre_allocation methods installed on other forks.
C6_GnosisAllocationOverridesBase ==
    /\ C6_GnosisClassPart
    /\ C6_PatchedBlockchainPart
    /\ C6_PatchedStatePart

\* C7: the Gnosis sets are merged in the order chain accounts, system
\* contracts, pre-allocated accounts: the merged set holds every address of the
\* three sets and, for each, the whole record of the latest set holding it;
\* every pre_allocation_blockchain installed by patch_fork_parameters returns
\* that record for each of these addresses.
C7_MergeOrder ==
    LET expected(a) ==
            IF a \in DOMAIN GNOSIS_PRE_ALLOCATED_ACCOUNTS
            THEN GNOSIS_PRE_ALLOCATED_ACCOUNTS[a]
            ELSE IF a \in DOMAIN GNOSIS_SYSTEM_CONTRACTS
            THEN GNOSIS_SYSTEM_CONTRACTS[a]
            ELSE GNOSIS_CHAIN_ACCOUNTS[a]
        all == DOMAIN GNOSIS_CHAIN_ACCOUNTS \cup DOMAIN GNOSIS_SYSTEM_CONTRACTS
                   \cup DOMAIN GNOSIS_PRE_ALLOCATED_ACCOUNTS
    IN  /\ DOMAIN GnosisAllocation = all
        /\ \A a \in all : GnosisAllocation[a] = expected(a)
        /\ \A f \in AllForks :
              class_dict[f][Blockchain].kind = "patched_pre_allocation"
                  => \A a \in all :
                        /\ a \in DOMAIN PreAllocation(f, Blockchain)
                        /\ PreAllocation(f, Blockchain)[a] = expected(a)

\* C7 witness: one address held by the pre-allocated set and the system
\* contracts with different records, another held by the system contracts and
\* the chain accounts only, with different records, and a patched fork.
C7_Witness ==
    /\ \E a \in DOMAIN GNOSIS_PRE_ALLOCATED_ACCOUNTS \cap DOMAIN GNOSIS_SYSTEM_CONTRACTS :
          GNOSIS_PRE_ALLOCATED_ACCOUNTS[a] # GNOSIS_SYSTEM_CONTRACTS[a]
    /\ \E a \in (DOMAIN GNOSIS_SYSTEM_CONTRACTS \cap DOMAIN GNOSIS_CHAIN_ACCOUNTS)
                   \ DOMAIN GNOSIS_PRE_ALLOCATED_ACCOUNTS :
          GNOSIS_SYSTEM_CONTRACTS[a] # GNOSIS_CHAIN_ACCOUNTS[a]
    /\ class_dict["Cancun"][Blockchain].kind = "patched_pre_allocation"

\* C8: every fork satisfies target_blobs_per_block <= max_blobs_per_block,
\* whatever overrides were given (a combination with target > max being
\* rejected before any fork is patched).
C8_TargetNeverAboveMax ==
    \A f \in AllForks :
        LET t == BlobValue(class_dict, f, "target_blobs_per_block", gnosis_params)
            m == BlobValue(class_dict, f, "max_blobs_per_block", gnosis_params)
        IN  (~t.raises /\ ~m.raises) => t.value <= m.value

\* Fork f answers supports_blobs() with True.
BlobSupported(cd, f) == HasAttr(cd, f, "supports_blobs") /\ SupportsBlobs(cd, f) = "True"

\* Every listed blob fork returns, for each blob parameter, the value of the
\* latest set_custom_fork_parameters call if it gave one, else its base value.
C9_Resolved ==
    \A f \in ListedForks :
        BlobSupported(class_dict, f) =>
            \A p \in BlobParams :
                BlobValue(class_dict, f, p, gnosis_params) =
                    IF p \in DOMAIN custom_fork_params
                    THEN [raises |-> FALSE, value |-> custom_fork_params[p]]
                    ELSE BlobValue(InitialClassDict, f, p, gnosis_params)

\* C9: after patch_fork_parameters, following any sequence of
\* set_custom_fork_parameters and patch_fork_parameters calls, every
\* blob-supporting fork returns for each blob parameter the value of the most
\* recent set_custom_fork_parameters call if it gave one and the base fork's
\* own value otherwise (an earlier override left None reverts to the base).
C9_OverridePrecedence == [][patch_fork_parameters => C9_Resolved']_vars

\* C10: patch_fork_parameters leaves the three blob accessors of every fork
\* without blob support (supports_blobs false, raising or absent) exactly as
\* they were before the call.
C10_NoBlobSupportUntouched ==
    [][patch_fork_parameters =>
          \A f \in AllForks :
              ~BlobSupported(class_dict, f) =>
                  \A p \in BlobParams :
                      /\ Resolve(class_dict', f, p) = Resolve(class_dict, f, p)
                      /\ BlobValue(class_dict', f, p, gnosis_params') =
                             BlobValue(class_dict, f, p, gnosis_params)]_vars

\* C10 witness: a patch with blob overrides has run (Cancun's accessors are
\* replaced) and the three forks without blob support - supports_blobs absent,
\* raising, false - were visited and still resolve to the original methods.
C10_Witness ==
    /\ \A p \in BlobParams : class_dict["Cancun"][p].kind = "lambda"
    /\ {"Frontier", "Homestead", "Shanghai"} \subseteq DOMAIN original_fork_methods
    /\ ~HasAttr(class_dict, "Frontier", "supports_blobs")
    /\ SupportsBlobs(class_dict, "Homestead") = "NotImplementedError"
    /\ SupportsBlobs(class_dict, "Shanghai") = "False"
    /\ \A f \in {"Frontier", "Homestead", "Shanghai"}, p \in BlobParams :
          Resolve(class_dict, f, p) = Defined("Frontier")


(***************************************************************************)
(* Claims about the Environment defaults and the plugin configuration.     *)
(***************************************************************************)
\* The environment was built by the class as patched last, and that patch
\* enabled genesis-hash patching.
GenesisPatchingEnabled ==
    /\ environment.stage # "none"
    /\ Len(environment_init) >= 1
    /\ environment.built_with = Len(environment_init)
    /\ environment_init[Len(environment_init)].patch_genesis_hash

\* The block_hashes the caller passed to Environment(...).
CallerBlockHashes ==
    IF environment.kwargs["block_hashes"] = <<>> THEN EmptyDict
    ELSE environment.kwargs["block_hashes"][1]

\* C11: with genesis-hash patching enabled, an Environment whose caller gave no
\* entry for block 0 (no block_hashes, or a map without key 0) has
\* block_hashes[0] = the Gnosis genesis hash, right after construction and
\* after set_fork_requirements, and still has every entry the caller gave.
C11_GenesisHashInjected ==
    (GenesisPatchingEnabled /\ 0 \notin DOMAIN CallerBlockHashes) =>
        /\ 0 \in DOMAIN environment.fields.block_hashes
        /\ environment.fields.block_hashes[0] = GNOSIS_GENESIS_HASH
        /\ \A n \in DOMAIN CallerBlockHashes :
              /\ n \in DOMAIN environment.fields.block_hashes
              /\ environment.fields.block_hashes[n] = CallerBlockHashes[n]

\* C12: with genesis-hash patching enabled, an Environment built with an
\* explicit block_hashes[0] = H2 different from the Gnosis genesis hash keeps
\* block_hashes[0] = H2, after construction and after set_fork_requirements.
C12_CallerGenesisEntryWins ==
    (/\ GenesisPatchingEnabled
     /\ 0 \in DOMAIN CallerBlockHashes
     /\ CallerBlockHashes[0] # GNOSIS_GENESIS_HASH) =>
        /\ 0 \in DOMAIN environment.fields.block_hashes
        /\ environment.fields.block_hashes[0] = CallerBlockHashes[0]

\* The environment was just built by the class patched by one call of
\* patch_environment_defaults_and_class.
BuiltAfterOnePatch ==
    /\ environment.stage = "built"
    /\ Len(environment_init) = 1
    /\ environment.built_with = 1

\* The default the patch call configured for field f, as a field value.
ConfiguredDefault(f) ==
    LET custom_defaults == environment_init[1].custom_defaults
    IN  CASE f = "prev_randao" -> custom_defaults.prev_randao
          [] f = "fee_recipient" -> <<Address(custom_defaults.fee_recipient)>>
          [] OTHER -> <<custom_defaults[f]>>

OptionField(o) ==
    CASE o = "gnosis_gas_limit" -> "gas_limit"
      [] o = "gnosis_number" -> "number"
      [] o = "gnosis_timestamp" -> "timestamp"
      [] o = "gnosis_base_fee" -> "base_fee_per_gas"
      [] o = "gnosis_difficulty" -> "difficulty"
      [] o = "gnosis_excess_blob_gas" -> "excess_blob_gas"
DocumentedDefault(o) ==
    CASE o = "gnosis_gas_limit" -> 10000000
      [] o = "gnosis_number" -> 0
      [] o = "gnosis_timestamp" -> 0
      [] o = "gnosis_base_fee" -> 1000000000
      [] o = "gnosis_difficulty" -> 131072
      [] o = "gnosis_excess_blob_gas" -> 0

\* C14: with --gnosis, Environment() built after configuration has, for each
\* environment option, exactly the value given on the command line (0
\* included) and the documented default when the option is not given.
C14_OptionsBecomeDefaults ==
    (/\ configured /\ config.gnosis
     /\ environment.stage = "built" /\ environment.built_with = 1
     /\ environment.kwargs = NoKwargs) =>
        \A o \in EnvOptions :
            environment.fields[OptionField(o)] =
                IF config.options[o] # <<>> THEN config.options[o]
                ELSE <<DocumentedDefault(o)>>

InitialEnvPatchState ==
    [EnvironmentDefaults |-> LibraryGasLimit,
     original_defaults |-> <<>>,
     original_environment_class |-> <<>>,
     original_set_fork_requirements |-> <<>>,
     set_fork_requirements |-> "set_fork_requirements",
     model_fields |-> InitialModelFields,
     environment_init |-> <<>>]

\* C15: configuration without --gnosis changes no fork class method, no
\* Environment default and no transaction default, whatever other options
\* are given.
C15_NothingWithoutGnosis ==
    (configured /\ ~config.gnosis) =>
        /\ class_dict = InitialClassDict
        /\ EnvPatchState = InitialEnvPatchState
        /\ TransactionDefaults = InitialTransactionDefaults

\* Some fork carries a pre-allocation method installed by patch_fork_parameters.
PreAllocationPatched ==
    \E f \in AllForks :
        \/ class_dict[f]["pre_allocation_blockchain"].kind = "patched_pre_allocation"
        \/ class_dict[f]["pre_allocation"].kind = "patched_pre_allocation_2"

\* Genesis-hash reconciliation is in place: set_fork_requirements is replaced
\* or some patched_init injects the genesis entry.
GenesisHashPatched ==
    \/ set_fork_requirements = "patched_set_fork_requirements"
    \/ \E i \in 1..Len(environment_init) : environment_init[i].patch_genesis_hash

\* C16: with --gnosis, genesis-hash reconciliation and pre-allocation patching
\* are applied when --gnosis-patch-genesis-hash is set, and when it is unset no
\* genesis entry is injected, set_fork_requirements is not replaced and no
\* fork's pre-allocation is patched.
C16_SwitchedByPatchGenesisHashOption ==
    (configured /\ config.gnosis) =>
        IF config.gnosis_patch_genesis_hash
        THEN /\ set_fork_requirements = "patched_set_fork_requirements"
             /\ environment_init[Len(environment_init)].patch_genesis_hash
             /\ PreAllocationPatched
        ELSE /\ ~GenesisHashPatched
             /\ ~PreAllocationPatched
             /\ (environment.stage # "none" /\ environment.built_with = 1) =>
                    \A n \in DOMAIN environment.fields.block_hashes :
                        n \in DOMAIN CallerBlockHashes


(***************************************************************************)
(* Claims about configuration after setup, the header-hash tool, patch     *)
(* idempotence and fork registration.                                      *)
(***************************************************************************)
\* patch_fork_parameters has gone through the fork list.
PatchHasRun == original_fork_methods # EmptyDict

\* What the forks return: both pre-allocations and the three blob parameters.
ForkResults ==
    [f \in AllForks |->
        [pre_allocation_blockchain |-> PreAllocation(f, "pre_allocation_blockchain"),
         pre_allocation |-> PreAllocation(f, "pre_allocation"),
         blob |-> [p \in BlobParams |-> BlobValue(class_dict, f, p, gnosis_params)]]]

\* C17: once patch_fork_parameters has run, a call of add_gnosis_account,
\* add_gnosis_system_contract, update_gnosis_account, set_gnosis_fork_parameters
\* or set_custom_fork_parameters (any step other than patch_fork_parameters
\* itself) is rejected or leaves what every fork returns - pre-allocations and
\* blob parameters - unchanged.
C17_ReadOnlyAfterSetup ==
    [][(PatchHasRun /\ ~patch_fork_parameters) => ForkResults' = ForkResults]_vars

\* The state patch_fork_parameters() leaves when called in the current state.
AfterPatch ==
    PatchResult(original_fork_methods, class_dict, custom_fork_params,
                patch_pre_allocation)

\* A second call with the same parameters leaves every class attribute and
\* every saved original as the first call left them, hence every result.
SecondCallChangesNothing ==
    PatchResult(AfterPatch.orig, AfterPatch.cd, custom_fork_params,
                patch_pre_allocation) = AfterPatch

\* Every pre-allocation wrapper the call installs wraps a method that no
\* patch installed.
WrapsUnpatchedMethod ==
    \A f \in AllForks, n \in {"pre_allocation_blockchain", "pre_allocation"} :
        AfterPatch.cd[f][n].kind \in {"patched_pre_allocation", "patched_pre_allocation_2"}
            => AfterPatch.cd[f][n].orig[1].func.kind = "def"

\* C19: patch_fork_parameters is idempotent: called twice in a row with the
\* same custom parameters, in any state, the second call leaves every fork's
\* blob parameters and pre-allocation results as the first call left them, and
\* the wrappers installed wrap the stored unpatched method, not an already
\* patched one (Gnosis accounts are merged once over the base allocation).
C19_PatchIsIdempotent == SecondCallChangesNothing /\ WrapsUnpatchedMethod

\* How many times x occurs in the list s.
Occurrences(s, x) == Cardinality({i \in 1..Len(s) : s[i] = x})

\* C20: after gnosis_fork_registrar has run, get_forks() - through
\* ethereum_test_forks.helpers.get_forks and through the name get_forks that
\* the fixture's registration check calls - returns a list holding the Gnosis
\* class exactly once.
C20_GnosisRegisteredOnce ==
    registration # "not_run" =>
        /\ Occurrences(HelpersGetForks, "Gnosis") = 1
        /\ Occurrences(ModuleGetForks, "Gnosis") = 1

\* C18: every finished run of the tool on an accepted header document has
\* written the block hash as its only standard-output text, returned 0, and
\* written the encoding to a file exactly when --rlp-out was given (to that
\* path); two runs on the same document print the same hash, with or without
\* --rlp-out.
C18_OnlyTheHashOnStdout ==
    /\ \A r \in Runs :
          (tool[r].pc = "done" /\ tool[r].json_path \in AcceptedDocuments) =>
              /\ tool[r].stdout = <<Str(BlockHash(tool[r].json_path))>>
              /\ tool[r].result = <<0>>
              /\ tool[r].writes =
                    IF tool[r].rlp_out = <<>> THEN <<>>
                    ELSE <<[path |-> tool[r].rlp_out[1],
                            text |-> Str(Rlp(tool[r].json_path))]>>
    /\ \A r, q \in Runs :
          (/\ tool[r].pc = "done" /\ tool[q].pc = "done"
           /\ tool[r].json_path \in AcceptedDocuments
           /\ tool[r].json_path = tool[q].json_path) =>
              tool[r].stdout = tool[q].stdout

\* C18 witness: two finished runs on the same accepted document, one with
\* --rlp-out (its file is written) and one without, whose debug prints went
\* to the buffer.
C18_Witness ==
    \E r, q \in Runs :
        /\ tool[r].pc = "done" /\ tool[q].pc = "done"
        /\ tool[r].json_path = "header1" /\ tool[q].json_path = "header1"
        /\ tool[r].rlp_out = <<"out/a.rlp">> /\ tool[q].rlp_out = <<>>
        /\ "out/a.rlp" \in DOMAIN files
        /\ tool[r].buf # <<>> /\ tool[q].buf # <<>>
        /\ Len(tool[r].stdout) = 1 /\ Len(tool[q].stdout) = 1

(***************************************************************************)
(* Concurrent calls of TransitionTool.evaluate.                            *)
(***************************************************************************)
\* Everything call c holds: its arguments, the requests its engine read, its
\* engine's exit status and output, and its outcome.
CallState(c) ==
    [pc |-> pc[c], args |-> args[c], engineStdin |-> engineStdin[c], runs |-> runs[c],
     proc |-> proc[c], outcome |-> outcome[c]]

\* The engine of call c exited with status 0 and a complete document.
CompleteOutput(c) ==
    /\ proc[c].returncode = 0
    /\ WroteDocument(c)
    /\ {"alloc", "result"} \subseteq WrittenKeys(c)

\* C21: concurrent evaluate calls are independent: in every interleaving, a
\* step of one call leaves everything the other calls hold unchanged, and the
\* call that finishes after its own engine wrote a complete document returns
\* the pair of that document.
C21_ConcurrentCallsIndependent ==
    [][\A c \in Calls :
          pc'[c] # pc[c] =>
              /\ \A e \in Calls \ {c} : CallState(e)' = CallState(e)
              /\ (pc'[c] = "done" /\ CompleteOutput(c)) =>
                    outcome'[c] = Return(proc[c].written.doc["alloc"],
                                         proc[c].written.doc["result"])]_vars

(***************************************************************************)
(* Header canonicalization.                                                *)
(***************************************************************************)
\* The boundary values 0, 1, 2^64 - 1 and 2^256 - 1 as integers.
BoundaryValues == {HexNumber(BoundaryTexts[i]) : i \in 1..Len(BoundaryTexts)}

\* b is the minimal-length big-endian byte string of the integer n.
MinimalBigEndian(b, n) ==
    /\ (n = <<>>) <=> (b = <<>>)
    /\ b # <<>> => b[1] # 0
    /\ BytesToInt(b) = n

\* The encoding whose hash a finished run printed.
HashedEncoding(r) == tool[r].stdout[1].text_of.keccak256_of

\* C22: for every finished run of the tool on an accepted document (the
\* documents give every integer field each of the boundary values 0, 1,
\* 2^64 - 1 and 2^256 - 1), the hash printed is the hash of the complete
\* encoding of the header's field sequence; in that encoding every integer
\* field is the minimal-length big-endian byte string of its value, 0 being
\* the empty byte string, and the reference decoder recovers every field
\* value exactly.
C22_HeaderEncodingRoundTrip ==
    \A r \in Runs :
        (tool[r].pc = "done" /\ tool[r].json_path \in AcceptedDocuments) =>
            LET fields == FixtureHeaderFields(LoadJson(tool[r].json_path))
                items == RlpDecodeSequence(HashedEncoding(r))
            IN  /\ Len(items) = Len(HeaderSequence)
                /\ \A i \in 1..Len(HeaderSequence) :
                      HeaderSequence[i] \in IntegerFields =>
                          MinimalBigEndian(items[i], fields[HeaderSequence[i]])
                /\ DecodeHeader(HashedEncoding(r)) = fields
                /\ tool[r].rlp_out # <<>> =>
                      files[tool[r].rlp_out[1]].text_of \in
                          {Rlp(d) : d \in AcceptedDocuments}

\* C22 witness: two finished runs whose documents give the block number the
\* values 0 and 2^256 - 1 and, between them, every boundary value to some
\* field; the encodings hashed are longer than 55 bytes.
C22_Witness ==
    \E r, q \in Runs :
        /\ tool[r].pc = "done" /\ tool[q].pc = "done"
        /\ tool[r].json_path \in AcceptedDocuments
        /\ tool[q].json_path \in AcceptedDocuments
        /\ DecodeHeader(HashedEncoding(r)).number = <<>>
        /\ DecodeHeader(HashedEncoding(q)).number = Repeat(15, 64)
        /\ {DecodeHeader(HashedEncoding(r))[f] : f \in IntegerFields} = BoundaryValues
        /\ Len(HashedEncoding(r)) > 55

(***************************************************************************)
(* Transaction defaults and repeated patching.                             *)
(***************************************************************************)
\* Environment() built now without any explicit field.
DefaultEnvironment(rebuilt) ==
    EnvironmentInit(environment_init, Len(environment_init), NoKwargs,
                    EnvironmentDefaults, model_fields, rebuilt)

\* C23: after pytest_configure with --gnosis, the default transaction
\* gas_price and max_fee_per_gas are both 2,000,000,000 wei and are not below
\* the base_fee_per_gas of a default Environment, for every base fee the
\* plugin was configured with (the Gnosis default or --gnosis-base-fee).
C23_DefaultFeesCoverBaseFee ==
    (configured /\ config.gnosis) =>
        /\ TransactionDefaults.gas_price = 2000000000
        /\ TransactionDefaults.max_fee_per_gas = 2000000000
        /\ \A rebuilt \in BOOLEAN :
              /\ DefaultEnvironment(rebuilt).base_fee_per_gas # <<>>
              /\ TransactionDefaults.gas_price >=
                    DefaultEnvironment(rebuilt).base_fee_per_gas[1]
              /\ TransactionDefaults.max_fee_per_gas >=
                    DefaultEnvironment(rebuilt).base_fee_per_gas[1]

\* The most recent call of patch_environment_defaults_and_class.
MostRecentPatch == environment_init[Len(environment_init)]

\* An Environment built without explicit fields by the class as patched now.
BuiltWithoutFields ==
    /\ environment.stage \in {"built", "filled"}
    /\ environment.kwargs = NoKwargs
    /\ Len(environment_init) >= 1
    /\ environment.built_with = Len(environment_init)

\* The default the most recent call configured for field f, as a field value.
MostRecentDefault(f) ==
    LET custom_defaults == MostRecentPatch.custom_defaults
    IN  CASE f = "prev_randao" -> custom_defaults.prev_randao
          [] f = "fee_recipient" -> <<Address(custom_defaults.fee_recipient)>>
          [] OTHER -> <<custom_defaults[f]>>

\* C24: after any number of calls of patch_environment_defaults_and_class, an
\* Environment built without explicit fields has number, timestamp,
\* base_fee_per_gas, difficulty, prev_randao, excess_blob_gas, blob_gas_used and
\* fee_recipient as the most recent call configured them, and holds a genesis
\* entry in block_hashes exactly when the most recent call asked for it;
\* nothing an earlier call configured remains in effect.
C24_DefaultsFromMostRecentPatch ==
    BuiltWithoutFields =>
        /\ \A f \in (NumberFields \ {"gas_limit"}) \cup {"fee_recipient"} :
              environment.fields[f] = MostRecentDefault(f)
        /\ (0 \in DOMAIN environment.fields.block_hashes)
              <=> MostRecentPatch.patch_genesis_hash

\* C25: saved originals are never overwritten by patched values: every entry
\* of _original_fork_methods (also for a fork that inherits the method from a
\* fork patched earlier in the loop) is a method no patch installed,
\* _original_set_fork_requirements is the library's method, and
\* TransactionDefaults._original_gas_price / _original_max_fee_per_gas are the
\* library's values.
C25_SavedOriginalsAreUnpatched ==
    /\ \A f \in DOMAIN original_fork_methods :
          \A n \in DOMAIN original_fork_methods[f] :
              original_fork_methods[f][n].func.kind = "def"
    /\ original_set_fork_requirements # <<>> =>
          original_set_fork_requirements = <<"set_fork_requirements">>
    /\ TransactionDefaults.original_gas_price # <<>> =>
          TransactionDefaults.original_gas_price = <<LibraryGasPrice>>
    /\ TransactionDefaults.original_max_fee_per_gas # <<>> =>
          TransactionDefaults.original_max_fee_per_gas = <<LibraryMaxFeePerGas>>


Init == T8nInit /\ ForkInit /\ EnvInit /\ ToolInit /\ RegInit

SpecT8n == Init /\ [][T8nNext]_vars
SpecBlob == Init /\ [][BlobNext]_vars
SpecAlloc == Init /\ [][AllocNext]_vars
SpecConfigure == Init /\ [][ConfigureNext]_vars
SpecEnv == Init /\ [][EnvNext]_vars
SpecPlugin == Init /\ [][PluginNext]_vars
SpecTool == Init /\ [][ToolNext]_vars
SpecRegistrar == Init /\ [][RegistrarNext]_vars

Next ==
    \/ T8nNext \/ BlobNext \/ AllocNext \/ ConfigureNext
    \/ EnvNext \/ PluginNext \/ ToolNext \/ RegistrarNext
Spec == Init /\ [][Next]_vars

=============================================================================
